---- MODULE Spec2Model ----
(***************************************************************************)
(* Model of the XShaderCompiler AST (src/src/Compiler/AST/AST.cpp):        *)
(* typed nodes with a buffered (memoized) type denoter, literal            *)
(* conversion, VarIdent chains, struct and function declarations.          *)
(*                                                                         *)
(* Strings are sequences of one-character strings, so that formatting and  *)
(* parsing are computed and not assumed.                                   *)
(***************************************************************************)
EXTENDS Integers, Sequences, FiniteSets, TLC

NULL == "nullptr"

(* ----- bounds ----- *)

\* longest VarIdent chain built by Init
MaxChain == 3
\* largest number of array indices on one VarIdent segment
MaxIndices == 1

(* ----- strings ----- *)

Digits == <<"0", "1", "2", "3", "4", "5", "6", "7", "8", "9">>

IsDigit(c) == \E d \in 1..10 : Digits[d] = c

DigitVal(c) == (CHOOSE d \in 1..10 : Digits[d] = c) - 1

RECURSIVE IntToStr(_)
\* std::to_string of a non-negative integer
IntToStr(n) ==
    IF n < 10 THEN <<Digits[n + 1]>>
    ELSE IntToStr(n \div 10) \o <<Digits[(n % 10) + 1]>>

RECURSIVE ParseDigits(_, _)
\* leading decimal digits of s, read left to right; stops at the first
\* character that is not a digit
ParseDigits(s, acc) ==
    IF s = <<>> \/ ~IsDigit(Head(s)) THEN acc
    ELSE ParseDigits(Tail(s), acc * 10 + DigitVal(Head(s)))

RECURSIVE IndexOf(_, _)
\* 1-based position of the first c in s, 0 when there is none
IndexOf(s, c) ==
    IF s = <<>> THEN 0
    ELSE IF Head(s) = c THEN 1
    ELSE LET r == IndexOf(Tail(s), c) IN IF r = 0 THEN 0 ELSE r + 1

(* ----- Variant (value of a literal; reals are kept in tenths) ----- *)

VariantParseFrom(s) ==
    IF s = <<"t", "r", "u", "e">> THEN [type |-> "Bool", n |-> 1]
    ELSE IF s = <<"f", "a", "l", "s", "e">> THEN [type |-> "Bool", n |-> 0]
    ELSE IF IndexOf(s, ".") # 0
    THEN LET p    == IndexOf(s, ".")
             frac == SubSeq(s, p + 1, Len(s))
         IN  [type |-> "Real",
              n    |-> ParseDigits(SubSeq(s, 1, p - 1), 0) * 10
                       + (IF frac # <<>> /\ IsDigit(Head(frac))
                          THEN DigitVal(Head(frac)) ELSE 0)]
    ELSE [type |-> "Int", n |-> ParseDigits(s, 0)]

VariantToBool(v) ==
    [type |-> "Bool", n |-> IF v.n # 0 THEN 1 ELSE 0]

VariantToInt(v) ==
    [type |-> "Int", n |-> IF v.type = "Real" THEN v.n \div 10 ELSE v.n]

VariantToReal(v) ==
    [type |-> "Real", n |-> IF v.type = "Real" THEN v.n ELSE v.n * 10]

VariantToString(v) ==
    CASE v.type = "Bool" ->
            IF v.n # 0 THEN <<"t", "r", "u", "e">> ELSE <<"f", "a", "l", "s", "e">>
      [] v.type = "Int"  -> IntToStr(v.n)
      [] v.type = "Real" ->
            IntToStr(v.n \div 10) \o <<".", Digits[(v.n % 10) + 1]>>
            \o <<"0", "0", "0", "0", "0">>

(* ----- data types ----- *)

\* DataType enumerators a literal is converted between: the four scalar
\* branches of ConvertDataType and one vector type for its default branch
DataTypes == {"Bool", "Int", "UInt", "Float", "Float2"}


Idents == {<<"a">>, <<"b">>}

(* ----- program state ----- *)

VARIABLES
    structs,    \* the StructDecl nodes, in declaration order
    functions,  \* the FunctionDecl nodes, in declaration order
    declStmnt,  \* a VarDeclStmnt: its storage flags and type modifiers
    literal,    \* the LiteralExpr node: dataType and value
    unaryExpr,  \* the UnaryExpr node over the literal: its operator
    varDecl,    \* the VarDecl node the identifiers refer to
    varIdents,  \* the VarIdent nodes; node 1 is the head of the chain
    bufferedTypeDenoter,    \* TypedAST::bufferedTypeDenoter_ of every typed node
    exprs,      \* the other expression nodes; a node's operands come before it
    argv,       \* the command line of the tool, argv[0] left out
    argPos,     \* i of main's loop over the arguments, 0 before it starts
    g_config,   \* the tool's Config
    mainLocals, \* translationCounter, showHelp, showVersion, pauseApp
    translations,   \* the calls of Translate made so far
    cout,       \* what the tool wrote to std::cout
    cerr,       \* what the tool wrote to std::cerr
    exitCode,   \* what main returned, -1 while it runs
    call        \* the last operation made on a node, with its result

declVars == <<structs, functions, declStmnt>>
exprVars == <<literal, unaryExpr, varDecl, varIdents, bufferedTypeDenoter>>
toolVars == <<argv, argPos, g_config, mainLocals, translations, cout, cerr, exitCode>>
vars == <<structs, functions, declStmnt, literal, unaryExpr, varDecl, varIdents,
          bufferedTypeDenoter, exprs, argv, argPos, g_config, mainLocals,
          translations, cout, cerr, exitCode, call>>

\* no expression has been built
NoExprs ==
    /\ literal = [dataType |-> "Int", value |-> <<"0">>]
    /\ unaryExpr = [op |-> "Negate"]
    /\ varDecl = [declStmntRef |-> 0]
    /\ varIdents = <<>>
    /\ bufferedTypeDenoter = <<>>
    /\ exprs = <<>>

\* the tool has not been started
NoTool ==
    /\ argv = <<>>
    /\ argPos = 0
    /\ g_config = <<>>
    /\ mainLocals = <<>>
    /\ translations = <<>>
    /\ cout = <<>>
    /\ cerr = <<>>
    /\ exitCode = -1

\* the declarations a specification does not use stay as constructed
NoStmnt == [isInput |-> FALSE, isOutput |-> FALSE, isUniform |-> FALSE,
            typeModifiers |-> {}]

NoCall == [op |-> "none"]

\* the denoter of the type specifier 'float'
FloatTypeDenoter == [kind |-> "Base", dataType |-> "Float"]

(* ----- StructDecl ----- *)

\* longest list of StructDecl nodes
MaxStructs == 3
\* most member statements of one struct
MaxMembers == 2
\* most declarators of one member statement
MaxVarDecls == 2
\* most declarators over all structs
MaxDecls == 4

\* a VarDecl* is the place of the declarator: <<struct, statement, declarator>>
VarDeclAt(S, p) == S[p[1]].members[p[2]].varDecls[p[3]]

RECURSIVE VarDeclStmntFetchFrom(_, _, _)
\* the range-for of VarDeclStmnt::Fetch from declarator i on: index of the
\* first declarator named ident, 0 for nullptr
VarDeclStmntFetchFrom(varDecls, i, ident) ==
    IF i > Len(varDecls) THEN 0
    ELSE IF varDecls[i].ident = ident THEN i
    ELSE VarDeclStmntFetchFrom(varDecls, i + 1, ident)

VarDeclStmntFetch(varDeclStmnt, ident) ==
    VarDeclStmntFetchFrom(varDeclStmnt.varDecls, 1, ident)

RECURSIVE FetchFromMembers(_, _, _, _)
\* the range-for over members of StructDecl::Fetch, from statement m on
FetchFromMembers(S, s, m, ident) ==
    IF m > Len(S[s].members) THEN NULL
    ELSE LET symbol == VarDeclStmntFetch(S[s].members[m], ident)
         IN  IF symbol # 0 THEN <<s, m, symbol>>
             ELSE FetchFromMembers(S, s, m + 1, ident)

RECURSIVE FetchOwnFirst(_, _, _)
\* StructDecl::Fetch with the two searches swapped: own members, then base
FetchOwnFirst(S, s, ident) ==
    LET own == FetchFromMembers(S, s, 1, ident)
    IN  IF own # NULL THEN own
        ELSE IF S[s].baseStructRef # 0
             THEN FetchOwnFirst(S, S[s].baseStructRef, ident)
             ELSE NULL

RECURSIVE StructDeclFetch(_, _, _)
StructDeclFetch(S, s, ident) ==
    LET fromBase == IF S[s].baseStructRef # 0
                    THEN StructDeclFetch(S, S[s].baseStructRef, ident)
                    ELSE NULL
    IN  IF fromBase # NULL THEN fromBase
        ELSE FetchFromMembers(S, s, 1, ident)

RECURSIVE SumVarDecls(_, _)
\* the range-for of StructDecl::NumMembers: n += member->varDecls.size()
SumVarDecls(members, m) ==
    IF m > Len(members) THEN 0
    ELSE Len(members[m].varDecls) + SumVarDecls(members, m + 1)

\* StructDecl::NumMembers without the base struct
NumMembersOwnOnly(S, s) == SumVarDecls(S[s].members, 1)

RECURSIVE StructDeclNumMembers(_, _)
StructDeclNumMembers(S, s) ==
    (IF S[s].baseStructRef # 0
     THEN StructDeclNumMembers(S, S[s].baseStructRef) ELSE 0)
    + SumVarDecls(S[s].members, 1)

RECURSIVE TotalDecls(_, _)
TotalDecls(S, s) ==
    IF s > Len(S) THEN 0 ELSE SumVarDecls(S[s].members, 1) + TotalDecls(S, s + 1)

(* --- construction of the struct declarations, in source order --- *)

\* struct X [: base] { ... a struct can only derive from an earlier one
DeclStruct(base) ==
    /\ Len(structs) < MaxStructs
    /\ base \in 0..Len(structs)
    /\ structs' = Append(structs, [baseStructRef |-> base, members |-> <<>>])
    /\ call' = NoCall
    /\ UNCHANGED <<functions, declStmnt, exprVars, exprs, toolVars>>

\* a new member statement with its first declarator, in the last struct
DeclMember(ident) ==
    /\ structs # <<>>
    /\ Len(structs[Len(structs)].members) < MaxMembers
    /\ TotalDecls(structs, 1) < MaxDecls
    /\ LET s == Len(structs)
       IN  structs' = [structs EXCEPT ![s].members =
                          Append(@, [varType  |-> [typeDenoter |-> FloatTypeDenoter],
                                     varDecls |-> <<[ident |-> ident]>>])]
    /\ call' = NoCall
    /\ UNCHANGED <<functions, declStmnt, exprVars, exprs, toolVars>>

\* one more declarator in the last member statement of the last struct
DeclVar(ident) ==
    /\ structs # <<>>
    /\ structs[Len(structs)].members # <<>>
    /\ TotalDecls(structs, 1) < MaxDecls
    /\ LET s == Len(structs)
           m == Len(structs[s].members)
       IN  /\ Len(structs[s].members[m].varDecls) < MaxVarDecls
           /\ structs' = [structs EXCEPT ![s].members[m].varDecls =
                             Append(@, [ident |-> ident])]
    /\ call' = NoCall
    /\ UNCHANGED <<functions, declStmnt, exprVars, exprs, toolVars>>

CallFetch(s, ident) ==
    /\ call' = [op |-> "Fetch", s |-> s, ident |-> ident,
                result |-> StructDeclFetch(structs, s, ident)]
    /\ UNCHANGED <<structs, functions, declStmnt, exprVars, exprs, toolVars>>

CallNumMembers(s) ==
    /\ call' = [op |-> "NumMembers", s |-> s,
                result |-> StructDeclNumMembers(structs, s)]
    /\ UNCHANGED <<structs, functions, declStmnt, exprVars, exprs, toolVars>>

InitStruct ==
    /\ structs = <<>>
    /\ functions = <<>>
    /\ declStmnt = NoStmnt
    /\ NoExprs
    /\ NoTool
    /\ call = NoCall

NextStruct ==
    \/ \E base \in 0..MaxStructs : DeclStruct(base)
    \/ \E ident \in Idents : DeclMember(ident)
    \/ \E ident \in Idents : DeclVar(ident)
    \/ \E s \in 1..Len(structs), ident \in Idents : CallFetch(s, ident)
    \/ \E s \in 1..Len(structs) : CallNumMembers(s)

SpecStruct == InitStruct /\ [][NextStruct]_vars

(* --- what the struct claims are stated with --- *)

RECURSIVE BaseChain(_, _)
\* the structs of s's inheritance chain, root-most base first, s last
BaseChain(S, s) ==
    IF S[s].baseStructRef = 0 THEN <<s>>
    ELSE Append(BaseChain(S, S[s].baseStructRef), s)

\* every declarator place of struct t, in declaration order
DeclPlaces(S, t) ==
    UNION {{<<t, m, v>> : v \in 1..Len(S[t].members[m].varDecls)} :
              m \in 1..Len(S[t].members)}

\* p is searched before q in the chain of s
Before(chain, p, q) ==
    LET pos(t) == CHOOSE i \in 1..Len(chain) : chain[i] = t
    IN  \/ pos(p[1]) < pos(q[1])
        \/ p[1] = q[1] /\ p[2] < q[2]
        \/ p[1] = q[1] /\ p[2] = q[2] /\ p[3] < q[3]

ChainPlaces(S, s) ==
    UNION {DeclPlaces(S, BaseChain(S, s)[i]) : i \in 1..Len(BaseChain(S, s))}

Matches(S, s, ident) == {p \in ChainPlaces(S, s) : VarDeclAt(S, p).ident = ident}

\* C4: Fetch gives the first declarator named ident in the order: base
\* chain root-most first, then statements and declarators in declaration
\* order; nullptr iff no struct of the chain declares the name.
FetchBaseFirst ==
    call.op = "Fetch" =>
        LET hits == Matches(structs, call.s, call.ident)
        IN  /\ (call.result = NULL) <=> (hits = {})
            /\ hits # {} =>
                  /\ call.result \in hits
                  /\ \A q \in hits \ {call.result} :
                        Before(BaseChain(structs, call.s), call.result, q)

\* a derived struct and one of its bases both declare the name that was
\* fetched, and the base's declarator was returned
FetchShadowWitness ==
    /\ call.op = "Fetch"
    /\ call.result # NULL
    /\ call.result[1] # call.s
    /\ \E q \in Matches(structs, call.s, call.ident) : q[1] = call.s
    /\ Len(BaseChain(structs, call.s)) = 3

\* C5: NumMembers is the number of declarators in the struct and all its
\* bases.
NumMembersIsSum ==
    call.op = "NumMembers" =>
        call.result = Cardinality(ChainPlaces(structs, call.s))

\* a struct with a base, both with declarators, one statement with two
NumMembersWitness ==
    /\ call.op = "NumMembers"
    /\ structs[call.s].baseStructRef # 0
    /\ call.result >= 3
    /\ SumVarDecls(structs[call.s].members, 1) >= 1
    /\ SumVarDecls(structs[call.s].members, 1) < call.result


(* ----- type denoters ----- *)

\* the AliasDecl nodes: the type denoter each typedef stands for
\*   typedef float Scalar;     (1)
\*   typedef Scalar Real;      (2)
aliasDecls ==
    <<[typeDenoter |-> [kind |-> "Base", dataType |-> "Float"]],
      [typeDenoter |-> [kind |-> "Alias", aliasDeclRef |-> 1]]>>

\* TypeDenoter::Get(): strips alias indirection
TypeDenoterGet(t) ==
    IF t.kind = "Alias" THEN aliasDecls[t.aliasDeclRef].typeDenoter ELSE t

\* TypeDenoter::Equals: structural equality of the alias-free denoters, for
\* the base and struct denoters a parameter's type specifier names
TypeDenoterEquals(lhs, rhs) ==
    LET l == TypeDenoterGet(lhs)
        r == TypeDenoterGet(rhs)
    IN  /\ l.kind = r.kind
        /\ CASE l.kind = "Base"   -> l.dataType = r.dataType
             [] l.kind = "Struct" -> l.structDeclRef = r.structDeclRef
             [] OTHER -> FALSE

(* ----- FunctionDecl ----- *)

\* longest list of FunctionDecl nodes whose signatures are compared
MaxFuncs == 3
\* most parameters of one of them
MaxParams == 3
\* most parameters over all of them
MaxParamsTotal == 3
\* most parameters of the function whose argument counts are taken
MaxArgParams == 4

\* type denoters a parameter's type specifier can name
ParamTypeDenoters ==
    {[kind |-> "Base", dataType |-> "Float"],
     [kind |-> "Base", dataType |-> "Int"],
     [kind |-> "Alias", aliasDeclRef |-> 1],
     [kind |-> "Struct", structDeclRef |-> 1]}

\* declarator lists of a parameter: none, one without and one with an
\* initializer expression
ParamVarDecls ==
    {<<>>, <<[initializer |-> NULL]>>, <<[initializer |-> "expr"]>>}

\* identifier and return type of the n-th declared function
FunctionHeads ==
    <<[ident |-> <<"f">>, returnType |-> [kind |-> "Base", dataType |-> "Float"]],
      [ident |-> <<"g">>, returnType |-> [kind |-> "Base", dataType |-> "Void"]],
      [ident |-> <<"f">>, returnType |-> [kind |-> "Base", dataType |-> "Int"]],
      [ident |-> <<"h">>, returnType |-> [kind |-> "Base", dataType |-> "Float"]]>>

RECURSIVE EqualsParamsFrom(_, _, _)
\* the for loop of EqualsSignature from parameter i on
EqualsParamsFrom(lhs, rhs, i) ==
    IF i > Len(lhs.parameters) THEN TRUE
    ELSE LET lhsTypeDen == lhs.parameters[i].varType.typeDenoter
             rhsTypeDen == rhs.parameters[i].varType.typeDenoter
         IN  IF ~TypeDenoterEquals(lhsTypeDen, rhsTypeDen) THEN FALSE
             ELSE EqualsParamsFrom(lhs, rhs, i + 1)

\* EqualsSignature that only rejects an rhs with fewer parameters
EqualsSignaturePrefix(lhs, rhs) ==
    IF Len(lhs.parameters) > Len(rhs.parameters) THEN FALSE
    ELSE EqualsParamsFrom(lhs, rhs, 1)

EqualsSignature(lhs, rhs) ==
    IF Len(lhs.parameters) # Len(rhs.parameters) THEN FALSE
    ELSE EqualsParamsFrom(lhs, rhs, 1)

RECURSIVE NumMinArgsFrom(_, _)
\* the range-for of NumMinArgs from parameter i on: stops at the first
\* parameter whose first declarator has an initializer
NumMinArgsFrom(parameters, i) ==
    IF i > Len(parameters) THEN 0
    ELSE LET param == parameters[i]
         IN  IF param.varDecls # <<>> /\ param.varDecls[1].initializer # NULL
             THEN 0
             ELSE 1 + NumMinArgsFrom(parameters, i + 1)

RECURSIVE NumMinArgsNoBreak(_, _)
\* NumMinArgs with 'continue' in place of 'break': counts every parameter
\* without a default
NumMinArgsNoBreak(parameters, i) ==
    IF i > Len(parameters) THEN 0
    ELSE LET param == parameters[i]
         IN  (IF param.varDecls # <<>> /\ param.varDecls[1].initializer # NULL
              THEN 0 ELSE 1)
             + NumMinArgsNoBreak(parameters, i + 1)

NumMinArgsSkipping(f) == NumMinArgsNoBreak(f.parameters, 1)

NumMinArgs(f) == NumMinArgsFrom(f.parameters, 1)

NumMaxArgs(f) == Len(f.parameters)

RECURSIVE TotalParams(_, _)
TotalParams(F, i) ==
    IF i > Len(F) THEN 0 ELSE Len(F[i].parameters) + TotalParams(F, i + 1)

\* a function declaration begins: identifier, return type, no parameter yet
DeclFunction(maxFuncs) ==
    /\ Len(functions) < maxFuncs
    /\ functions' = Append(functions,
            [ident      |-> FunctionHeads[Len(functions) + 1].ident,
             returnType |-> [typeDenoter |-> FunctionHeads[Len(functions) + 1].returnType],
             parameters |-> <<>>])
    /\ call' = NoCall
    /\ UNCHANGED <<structs, declStmnt, exprVars, exprs, toolVars>>

\* one more parameter of the function being declared
DeclParam(typeDenoter, varDecls, maxParams, maxTotal) ==
    /\ functions # <<>>
    /\ Len(functions[Len(functions)].parameters) < maxParams
    /\ TotalParams(functions, 1) < maxTotal
    /\ functions' = [functions EXCEPT ![Len(functions)].parameters =
            Append(@, [varType  |-> [typeDenoter |-> typeDenoter],
                       varDecls |-> varDecls])]
    /\ call' = NoCall
    /\ UNCHANGED <<structs, declStmnt, exprVars, exprs, toolVars>>

CallEqualsSignature(a, b) ==
    /\ call' = [op |-> "EqualsSignature", lhs |-> a, rhs |-> b,
                result |-> EqualsSignature(functions[a], functions[b])]
    /\ UNCHANGED <<structs, functions, declStmnt, exprVars, exprs, toolVars>>

CallNumArgs(f) ==
    /\ call' = [op |-> "NumArgs", f |-> f,
                min |-> NumMinArgs(functions[f]),
                max |-> NumMaxArgs(functions[f])]
    /\ UNCHANGED <<structs, functions, declStmnt, exprVars, exprs, toolVars>>

InitFunc ==
    /\ structs = <<>>
    /\ functions = <<>>
    /\ declStmnt = NoStmnt
    /\ NoExprs
    /\ NoTool
    /\ call = NoCall

\* forward declarations and definitions whose signatures are compared; each
\* parameter has one declarator without initializer
NextFunc ==
    \/ DeclFunction(MaxFuncs)
    \/ \E t \in ParamTypeDenoters :
          DeclParam(t, <<[initializer |-> NULL]>>, MaxParams, MaxParamsTotal)
    \/ \E a \in 1..Len(functions), b \in 1..Len(functions) : CallEqualsSignature(a, b)

SpecFunc == InitFunc /\ [][NextFunc]_vars

\* one function whose parameters may have defaults
NextArgs ==
    \/ DeclFunction(1)
    \/ \E t \in {[kind |-> "Base", dataType |-> "Float"],
                  [kind |-> "Base", dataType |-> "Int"]}, d \in ParamVarDecls :
          DeclParam(t, d, MaxArgParams, MaxArgParams)
    \/ \E f \in 1..Len(functions) : CallNumArgs(f)

SpecArgs == InitFunc /\ [][NextArgs]_vars

HasDefault(param) ==
    \E v \in 1..Len(param.varDecls) : v = 1 /\ param.varDecls[v].initializer # NULL

\* C6: NumMinArgs is the number of parameters before the first one with a
\* defaulted initializer (all of them when there is none), NumMaxArgs is the
\* number of parameters, and NumMinArgs <= NumMaxArgs.
NumArgsBounds ==
    call.op = "NumArgs" =>
        LET ps == functions[call.f].parameters
            D  == {i \in 1..Len(ps) : HasDefault(ps[i])}
        IN  /\ call.max = Len(ps)
            /\ call.min <= call.max
            /\ D = {} => call.min = Len(ps)
            /\ D # {} => /\ call.min + 1 \in D
                         /\ \A i \in D : call.min + 1 <= i

\* a parameter without declarators, then a defaulted one, then one without
\* a default
NumArgsWitness ==
    /\ call.op = "NumArgs"
    /\ LET ps == functions[call.f].parameters
       IN  /\ Len(ps) = 3
           /\ ps[1].varDecls = <<>>
           /\ HasDefault(ps[2])
           /\ ps[3].varDecls # <<>> /\ ~HasDefault(ps[3])
           /\ call.min = 1

\* C7: EqualsSignature is symmetric and transitive over the declared
\* functions.
EqualsSignatureEquivalence ==
    \A a, b, c \in 1..Len(functions) :
        LET eq(x, y) == EqualsSignature(functions[x], functions[y])
        IN  /\ eq(a, b) = eq(b, a)
            /\ (eq(a, b) /\ eq(b, c)) => eq(a, c)

\* three functions with one parameter each, equal in signature although the
\* identifiers, return types and the spelling of the parameter type differ
EqualsSignatureWitness ==
    /\ call.op = "EqualsSignature"
    /\ call.result
    /\ Len(functions) = 3
    /\ \A f \in 1..3 : Len(functions[f].parameters) = 1
    /\ functions[call.lhs].ident # functions[call.rhs].ident
    /\ functions[call.lhs].returnType # functions[call.rhs].returnType
    /\ functions[call.lhs].parameters[1].varType # functions[call.rhs].parameters[1].varType
    /\ \A a, b \in 1..3 : EqualsSignature(functions[a], functions[b])


(* ----- VarDeclStmnt ----- *)

TypeModifiers == {"Const", "RowMajor", "ColumnMajor"}

\* IsInput that reads the isInput flag only
IsInputFlagOnly(varDeclStmnt) == varDeclStmnt.isInput

IsInput(varDeclStmnt) == varDeclStmnt.isInput \/ ~varDeclStmnt.isOutput

IsOutput(varDeclStmnt) == varDeclStmnt.isOutput

IsConst(varDeclStmnt) ==
    varDeclStmnt.isUniform \/ "Const" \in varDeclStmnt.typeModifiers

CallIsInput ==
    /\ call' = [op |-> "IsInput", result |-> IsInput(declStmnt)]
    /\ UNCHANGED <<structs, functions, declStmnt, exprVars, exprs, toolVars>>

CallIsOutput ==
    /\ call' = [op |-> "IsOutput", result |-> IsOutput(declStmnt)]
    /\ UNCHANGED <<structs, functions, declStmnt, exprVars, exprs, toolVars>>

CallIsConst ==
    /\ call' = [op |-> "IsConst", result |-> IsConst(declStmnt)]
    /\ UNCHANGED <<structs, functions, declStmnt, exprVars, exprs, toolVars>>

\* a declaration statement with any combination of storage flags and type
\* modifiers
InitStmnt ==
    /\ structs = <<>>
    /\ functions = <<>>
    /\ declStmnt \in [isInput : BOOLEAN, isOutput : BOOLEAN, isUniform : BOOLEAN,
                      typeModifiers : SUBSET TypeModifiers]
    /\ NoExprs
    /\ NoTool
    /\ call = NoCall

NextStmnt ==
    \/ CallIsInput
    \/ CallIsOutput
    \/ CallIsConst

SpecStmnt == InitStmnt /\ [][NextStmnt]_vars

\* C8: IsInput() is false only for a statement flagged output and not input:
\* true with neither flag, with both, and with isInput alone; IsOutput() is
\* the isOutput flag.
IsInputTruthTable ==
    /\ call.op = "IsInput" =>
          /\ (~declStmnt.isInput /\ ~declStmnt.isOutput) => call.result = TRUE
          /\ (declStmnt.isInput /\ declStmnt.isOutput)   => call.result = TRUE
          /\ (declStmnt.isInput /\ ~declStmnt.isOutput)  => call.result = TRUE
          /\ (~declStmnt.isInput /\ declStmnt.isOutput)  => call.result = FALSE
    /\ call.op = "IsOutput" =>
          /\ declStmnt.isOutput  => call.result = TRUE
          /\ ~declStmnt.isOutput => call.result = FALSE

\* IsInput() was asked of a statement with neither flag and answered true
IsInputDefaultWitness ==
    /\ call.op = "IsInput"
    /\ ~declStmnt.isInput
    /\ ~declStmnt.isOutput
    /\ call.result = TRUE


(* ----- VarIdent ----- *)

\* identifiers of the segments of a chain
ChainIdents == {<<"a">>, <<"u", "v">>}

\* array index lists of a segment: up to MaxIndices index expressions
IndexLists == UNION {[1..m -> {"i"}] : m \in 0..MaxIndices}

\* the typed node that is VarIdent k
VarIdentNode(k) == <<"VarIdent", k>>

\* a symbolRef that is nullptr
NoSymbol == <<"nullptr", 0>>

\* an empty shared_ptr<TypeDenoter>
NoDen == [id |-> 0]

\* what is left of a VarIdent whose last owner dropped it
Released == [ident |-> <<>>, arrayIndices |-> <<>>, next |-> 0, symbolRef |-> NoSymbol]

\* the chain of n VarIdents 1 -> 2 -> ... -> n
ChainOf(n, ident, indices, ref) ==
    [k \in 1..n |-> [ident        |-> ident[k],
                     arrayIndices |-> indices[k],
                     next         |-> IF k < n THEN k + 1 ELSE 0,
                     symbolRef    |-> ref[k]]]

RECURSIVE ChainFrom(_, _)
\* the nodes from k along the next links
ChainFrom(V, k) ==
    IF V[k].next = 0 THEN <<k>> ELSE <<k>> \o ChainFrom(V, V[k].next)

\* the VarIdents the head still owns
LiveVarIdents(V) ==
    IF V = <<>> THEN {}
    ELSE {ChainFrom(V, 1)[i] : i \in 1..Len(ChainFrom(V, 1))}

RECURSIVE ToStringTrailingDotLoop(_, _, _)
ToStringTrailingDotLoop(V, ast, name) ==
    LET name1 == name \o V[ast].ident \o <<".">>
    IN  IF V[ast].next # 0 THEN ToStringTrailingDotLoop(V, V[ast].next, name1)
        ELSE name1

\* ToString that appends the '.' before it tests for a next segment
ToStringTrailingDot(V, k) == ToStringTrailingDotLoop(V, k, <<>>)

RECURSIVE ToStringNoSeparatorLoop(_, _, _)
ToStringNoSeparatorLoop(V, ast, name) ==
    LET name1 == name \o V[ast].ident
    IN  IF V[ast].next # 0 THEN ToStringNoSeparatorLoop(V, V[ast].next, name1)
        ELSE name1

\* ToString that leaves out the '.'
ToStringNoSeparator(V, k) == ToStringNoSeparatorLoop(V, k, <<>>)

RECURSIVE ToStringLoop(_, _, _)
\* the while (true) of VarIdent::ToString, at node ast with name so far
ToStringLoop(V, ast, name) ==
    LET name1 == name \o V[ast].ident
    IN  IF V[ast].next # 0
        THEN ToStringLoop(V, V[ast].next, name1 \o <<".">>)
        ELSE name1

VarIdentToString(V, k) == ToStringLoop(V, k, <<>>)

\* the bufferedTypeDenoter_ of a released node goes with it
ReleaseNode(B, n) ==
    [x \in DOMAIN B |-> IF x = VarIdentNode(n) THEN NoDen ELSE B[x]]

\* PopFront that also resets the buffered denoter of the head
PopFrontResetsBuffer(k) ==
    /\ k \in LiveVarIdents(varIdents)
    /\ IF varIdents[k].next # 0
       THEN LET nextVarIdent == varIdents[k].next
            IN  /\ varIdents' =
                     [varIdents EXCEPT
                        ![k] = [ident        |-> varIdents[nextVarIdent].ident,
                                arrayIndices |-> varIdents[nextVarIdent].arrayIndices,
                                next         |-> varIdents[nextVarIdent].next,
                                symbolRef    |-> varIdents[nextVarIdent].symbolRef],
                        ![nextVarIdent] = Released]
                /\ bufferedTypeDenoter' =
                     [ReleaseNode(bufferedTypeDenoter, nextVarIdent)
                        EXCEPT ![VarIdentNode(k)] = NoDen]
       ELSE UNCHANGED <<varIdents, bufferedTypeDenoter>>
    /\ call' = [op |-> "PopFront"]
    /\ UNCHANGED <<declVars, exprs, toolVars, literal, unaryExpr, varDecl>>

\* PopFront on VarIdent k; the successor had no owner but k
PopFront(k) ==
    /\ k \in LiveVarIdents(varIdents)
    /\ IF varIdents[k].next # 0
       THEN LET nextVarIdent == varIdents[k].next
            IN  /\ varIdents' =
                     [varIdents EXCEPT
                        ![k] = [ident        |-> varIdents[nextVarIdent].ident,
                                arrayIndices |-> varIdents[nextVarIdent].arrayIndices,
                                next         |-> varIdents[nextVarIdent].next,
                                symbolRef    |-> varIdents[nextVarIdent].symbolRef],
                        ![nextVarIdent] = Released]
                /\ bufferedTypeDenoter' = ReleaseNode(bufferedTypeDenoter, nextVarIdent)
       ELSE UNCHANGED <<varIdents, bufferedTypeDenoter>>
    /\ call' = [op |-> "PopFront"]
    /\ UNCHANGED <<declVars, exprs, toolVars, literal, unaryExpr, varDecl>>

CallToString(k) ==
    /\ k \in LiveVarIdents(varIdents)
    /\ call' = [op |-> "ToString", k |-> k,
                result |-> VarIdentToString(varIdents, k)]
    /\ UNCHANGED <<declVars, exprVars, exprs, toolVars>>

\* an unresolved chain as parsed: identifiers and array indices
InitIdent ==
    /\ structs = <<>>
    /\ functions = <<>>
    /\ declStmnt = NoStmnt
    /\ literal = [dataType |-> "Int", value |-> <<"0">>]
    /\ unaryExpr = [op |-> "Negate"]
    /\ varDecl = [declStmntRef |-> 0]
    /\ \E n \in 1..MaxChain :
         \E ident \in [1..n -> ChainIdents], indices \in [1..n -> IndexLists] :
            varIdents = ChainOf(n, ident, indices, [k \in 1..n |-> NoSymbol])
    /\ bufferedTypeDenoter = <<>>
    /\ exprs = <<>>
    /\ NoTool
    /\ call = NoCall

NextIdent ==
    \/ \E k \in 1..MaxChain : PopFront(k)
    \/ \E k \in 1..MaxChain : CallToString(k)

SpecIdent == InitIdent /\ [][NextIdent]_vars

(* --- what the ToString claims are stated with --- *)

\* the segments from node k on: identifier and array indices of each
ChainStructure(V, k) ==
    [i \in 1..Len(ChainFrom(V, k)) |->
        [ident        |-> V[ChainFrom(V, k)[i]].ident,
         arrayIndices |-> V[ChainFrom(V, k)[i]].arrayIndices]]

RECURSIVE SplitAtDot(_)
\* the pieces of s between its '.' characters
SplitAtDot(s) ==
    LET p == IndexOf(s, ".")
    IN  IF p = 0 THEN <<s>>
        ELSE <<SubSeq(s, 1, p - 1)>> \o SplitAtDot(SubSeq(s, p + 1, Len(s)))

\* the chain structure rebuilt from a dotted name
ParsedStructure(s) ==
    [i \in 1..Len(SplitAtDot(s)) |->
        [ident |-> SplitAtDot(s)[i], arrayIndices |-> <<>>]]

RECURSIVE OffsetOf(_, _)
\* where segment i starts in the joined name
OffsetOf(segs, i) ==
    IF i = 1 THEN 1 ELSE OffsetOf(segs, i - 1) + Len(segs[i - 1].ident) + 1

\* C9: ToString() is the identifiers from the node it is called on to the
\* last next-link, in chain order, separated by single '.', with no '.' at
\* either end.
ToStringJoinsWithDots ==
    call.op = "ToString" =>
        LET segs == ChainStructure(varIdents, call.k)
            n    == Len(segs)
            s    == call.result
        IN  /\ Len(s) = OffsetOf(segs, n) + Len(segs[n].ident) - 1
            /\ \A i \in 1..n :
                  SubSeq(s, OffsetOf(segs, i),
                         OffsetOf(segs, i) + Len(segs[i].ident) - 1) = segs[i].ident
            /\ \A i \in 2..n : s[OffsetOf(segs, i) - 1] = "."
            /\ s[1] # "."
            /\ s[Len(s)] # "."

\* ToString() was called on the head of a chain of three segments, one of
\* them with an identifier of two characters
ToStringWitness ==
    /\ call.op = "ToString"
    /\ call.k = 1
    /\ Len(ChainFrom(varIdents, 1)) = 3
    /\ \E i \in 1..3 : Len(ChainStructure(varIdents, 1)[i].ident) = 2
    /\ Len(call.result) >= 6

\* C10 as stated: the chain rebuilt from ToString() is identical to the
\* original: number of segments, identifiers and array indices.
ToStringRoundTripIdentical ==
    call.op = "ToString" =>
        ParsedStructure(call.result) = ChainStructure(varIdents, call.k)

\* C10: the chain rebuilt from ToString() has the segments and identifiers
\* of the original and no array indices, so it is identical to the original
\* when no segment of the original has array indices.
ToStringRoundTripIdents ==
    call.op = "ToString" =>
        LET parsed == ParsedStructure(call.result)
            orig   == ChainStructure(varIdents, call.k)
        IN  /\ Len(parsed) = Len(orig)
            /\ \A i \in 1..Len(orig) :
                  /\ parsed[i].ident = orig[i].ident
                  /\ parsed[i].arrayIndices = <<>>
            /\ (\A i \in 1..Len(orig) : orig[i].arrayIndices = <<>>) => parsed = orig

\* ToString() was called on a chain of two or more segments, one of which
\* has an array index
ToStringRoundTripWitness ==
    /\ call.op = "ToString"
    /\ Len(ChainFrom(varIdents, call.k)) >= 2
    /\ \E i \in 1..Len(ChainFrom(varIdents, call.k)) :
          ChainStructure(varIdents, call.k)[i].arrayIndices # <<>>
    /\ Len(ParsedStructure(call.result)) = Len(ChainFrom(varIdents, call.k))


(* ----- TypedAST: derivation and buffering of type denoters ----- *)

\* longest VarIdent chain of the expression tree
MaxExprChain == 2

LiteralNode    == <<"LiteralExpr", 0>>
UnaryNode      == <<"UnaryExpr", 0>>
VarDeclNode    == <<"VarDecl", 0>>
MemberDeclNode == <<"VarDecl", 1>>
BufferDeclNode == <<"BufferDecl", 0>>
SamplerDeclNode == <<"SamplerDecl", 0>>
StructDeclNode == <<"StructDecl", 1>>
AliasDeclNode  == <<"AliasDecl", 1>>
AliasOfAliasDeclNode == <<"AliasDecl", 2>>
FunctionDeclNode == <<"FunctionDecl", 0>>

\* a denoter object: its identity and what it denotes
Instance(id, typeDenoter) == [id |-> id] @@ typeDenoter

\* identities of the denoters the declarations own: the type specifiers of
\* the variable, of the struct member and of the typedef
VarTypeId    == 101
MemberTypeId == 102
AliasTypeId  == 103
AliasOfAliasTypeId == 104

\* identity of the next denoter made by std::make_shared: one that no
\* buffered denoter has
FreshId(B) ==
    LET used == {B[n].id : n \in DOMAIN B}
    IN  CHOOSE i \in 1..(Cardinality(DOMAIN B) + 1) :
            /\ i \notin used
            /\ \A j \in 1..(i - 1) : j \in used

Returned(den, B) == [ok |-> TRUE, den |-> den, B |-> B, at |-> NoSymbol]

\* RuntimeErr(msg, ast): the buffers filled so far stay
Thrown(B, ast) == [ok |-> FALSE, den |-> NoDen, B |-> B, at |-> ast]

IsLogicalOp(op) == op = "LogicalNot"

\* operators of a BinaryExpr and the boolean-valued ones among them
BinaryOps == {"Add", "Less", "LogicalAnd"}

IsBooleanOp(op) == op \in {"Less", "LogicalAnd"}

\* a dimension expression that is nullptr
NullDim == 0

\* TypeDenoter::AsArray: this denoter when there is no dimension, else a new
\* array denoter around it.  arrayDims lists the dimension expressions, each
\* by the size it evaluates to, NullDim for a dimension without expression
AsArray(B, den, arrayDims) ==
    IF arrayDims = <<>> THEN den
    ELSE Instance(FreshId(B), [kind |-> "Array", baseTypeDenoter |-> den,
                               arrayDims |-> arrayDims])

RECURSIVE TypedASTGetTypeDenoter(_, _)
RECURSIVE DeriveTypeDenoter(_, _)
RECURSIVE GetFromArray(_, _, _, _)

\* TypeDenoter::GetFromArray(numArrayIndices, varIdent): peels the array
\* dimensions, then descends the member access of varIdent
GetFromArray(B, den, numArrayIndices, next) ==
    LET rank   == IF den.kind = "Array" THEN Len(den.arrayDims) ELSE 0
        peeled == IF numArrayIndices = 0 THEN den
                  ELSE IF numArrayIndices = rank THEN den.baseTypeDenoter
                  ELSE Instance(FreshId(B),
                                [kind |-> "Array",
                                 baseTypeDenoter |-> den.baseTypeDenoter,
                                 arrayDims |-> SubSeq(den.arrayDims,
                                                      numArrayIndices + 1, rank)])
    IN  IF numArrayIndices > rank THEN Thrown(B, NoSymbol)
        ELSE IF next = 0 THEN Returned(peeled, B)
        ELSE IF peeled.kind # "Struct" THEN Thrown(B, NoSymbol)
        ELSE LET member == StructDeclFetch(structs, peeled.structDeclRef,
                                           varIdents[next].ident)
             IN  IF member = NULL THEN Thrown(B, NoSymbol)
                 ELSE LET r == TypedASTGetTypeDenoter(B, MemberDeclNode)
                      IN  IF ~r.ok THEN r
                          ELSE GetFromArray(r.B, r.den,
                                            Len(varIdents[next].arrayIndices),
                                            varIdents[next].next)

\* the denoter object Get() returns: this one, and for an alias denoter the
\* type denoter that the AliasDecl it refers to owns
TypeDenoterGetInstance(den) ==
    IF den.kind = "Alias" THEN Instance(AliasTypeId, TypeDenoterGet(den)) ELSE den

\* GetExplicitTypeDenoter whose default case returns an empty denoter
GetExplicitNoDefaultError(B, k, recursive) ==
    LET this      == VarIdentNode(k)
        symbolRef == varIdents[k].symbolRef
    IN  IF symbolRef # NoSymbol
        THEN CASE symbolRef[1] \in {"VarDecl", "BufferDecl", "SamplerDecl"} ->
                    LET r == TypedASTGetTypeDenoter(B, symbolRef)
                    IN  IF ~r.ok THEN Thrown(r.B, this)
                        ELSE LET g == GetFromArray(r.B, r.den,
                                          Len(varIdents[k].arrayIndices),
                                          IF recursive THEN varIdents[k].next ELSE 0)
                             IN  IF g.ok THEN g ELSE Thrown(g.B, this)
               [] symbolRef[1] \in {"StructDecl", "AliasDecl"} ->
                    IF varIdents[k].next # 0
                    THEN Thrown(B, VarIdentNode(varIdents[k].next))
                    ELSE IF varIdents[k].arrayIndices # <<>> THEN Thrown(B, this)
                    ELSE LET r == TypedASTGetTypeDenoter(B, symbolRef)
                         IN  IF ~r.ok THEN r
                             ELSE Returned(TypeDenoterGetInstance(r.den), r.B)
               [] OTHER -> Returned(NoDen, B)
        ELSE Thrown(B, this)

\* GetExplicitTypeDenoter that tests the array indices before 'next'
GetExplicitIndicesFirst(B, k, recursive) ==
    LET this      == VarIdentNode(k)
        symbolRef == varIdents[k].symbolRef
    IN  IF symbolRef # NoSymbol
        THEN CASE symbolRef[1] \in {"VarDecl", "BufferDecl", "SamplerDecl"} ->
                    LET r == TypedASTGetTypeDenoter(B, symbolRef)
                    IN  IF ~r.ok THEN Thrown(r.B, this)
                        ELSE LET g == GetFromArray(r.B, r.den,
                                          Len(varIdents[k].arrayIndices),
                                          IF recursive THEN varIdents[k].next ELSE 0)
                             IN  IF g.ok THEN g ELSE Thrown(g.B, this)
               [] symbolRef[1] \in {"StructDecl", "AliasDecl"} ->
                    IF varIdents[k].arrayIndices # <<>> THEN Thrown(B, this)
                    ELSE IF varIdents[k].next # 0
                    THEN Thrown(B, VarIdentNode(varIdents[k].next))
                    ELSE LET r == TypedASTGetTypeDenoter(B, symbolRef)
                         IN  IF ~r.ok THEN r
                             ELSE Returned(TypeDenoterGetInstance(r.den), r.B)
               [] OTHER -> Thrown(B, this)
        ELSE Thrown(B, this)

\* VarIdent::GetExplicitTypeDenoter on VarIdent k
GetExplicitTypeDenoter(B, k, recursive) ==
    LET this      == VarIdentNode(k)
        symbolRef == varIdents[k].symbolRef
    IN  IF symbolRef # NoSymbol
        THEN CASE symbolRef[1] \in {"VarDecl", "BufferDecl", "SamplerDecl"} ->
                    LET r == TypedASTGetTypeDenoter(B, symbolRef)
                    IN  IF ~r.ok THEN Thrown(r.B, this)
                        ELSE LET g == GetFromArray(r.B, r.den,
                                          Len(varIdents[k].arrayIndices),
                                          IF recursive THEN varIdents[k].next ELSE 0)
                             IN  IF g.ok THEN g ELSE Thrown(g.B, this)
               [] symbolRef[1] \in {"StructDecl", "AliasDecl"} ->
                    IF varIdents[k].next # 0
                    THEN Thrown(B, VarIdentNode(varIdents[k].next))
                    ELSE IF varIdents[k].arrayIndices # <<>> THEN Thrown(B, this)
                    ELSE LET r == TypedASTGetTypeDenoter(B, symbolRef)
                         IN  IF ~r.ok THEN r
                             ELSE Returned(TypeDenoterGetInstance(r.den), r.B)
               [] OTHER -> Thrown(B, this)
        ELSE Thrown(B, this)

\* the typed node that is expression j of the tree
ExprNode(j) == <<"Expr", j>>

\* data types by the number of their components
Scalars  == {"Bool", "Int", "UInt", "Float"}
Vectors  == {"Float2"}
Matrices == {"Float2x2"}

RECURSIVE IsCastableTo(_, _)
\* TypeDenoter::IsCastableTo, as far as spec 3.2 lists it: a type to itself,
\* scalar to scalar, scalar to vector, vector to scalar, matrix to scalar,
\* struct to the identical struct, array to array of the same rank by element
IsCastableTo(from, target) ==
    LET x == TypeDenoterGet(from)
        y == TypeDenoterGet(target)
    IN  CASE x.kind = "Base" /\ y.kind = "Base" ->
                \/ x.dataType = y.dataType
                \/ x.dataType \in Scalars /\ y.dataType \in Scalars \cup Vectors
                \/ x.dataType \in Vectors \cup Matrices /\ y.dataType \in Scalars
          [] x.kind = "Struct" /\ y.kind = "Struct" ->
                x.structDeclRef = y.structDeclRef
          [] x.kind = "Array" /\ y.kind = "Array" ->
                /\ Len(x.arrayDims) = Len(y.arrayDims)
                /\ IsCastableTo(x.baseTypeDenoter, y.baseTypeDenoter)
          [] OTHER -> FALSE

\* BaseTypeDenoter(DataType::Bool) on the stack
BoolTypeDenoter == [kind |-> "Base", dataType |-> "Bool"]

\* BinaryExpr::DeriveTypeDenoter with only the test 'rhs castable to lhs'
BinaryDeriveOneWay(B, j) ==
    LET lhsTypeDen == TypedASTGetTypeDenoter(B, ExprNode(exprs[j].lhsExpr))
    IN  IF ~lhsTypeDen.ok THEN lhsTypeDen
        ELSE LET rhsTypeDen == TypedASTGetTypeDenoter(lhsTypeDen.B,
                                                      ExprNode(exprs[j].rhsExpr))
             IN  IF ~rhsTypeDen.ok THEN rhsTypeDen
                 ELSE IF ~IsCastableTo(rhsTypeDen.den, lhsTypeDen.den)
                 THEN Thrown(rhsTypeDen.B, ExprNode(j))
                 ELSE IF IsBooleanOp(exprs[j].op)
                 THEN Returned(Instance(FreshId(rhsTypeDen.B), BoolTypeDenoter),
                               rhsTypeDen.B)
                 ELSE Returned(lhsTypeDen.den, rhsTypeDen.B)

\* BinaryExpr::DeriveTypeDenoter on expression j
BinaryExprDeriveTypeDenoter(B, j) ==
    LET lhsTypeDen == TypedASTGetTypeDenoter(B, ExprNode(exprs[j].lhsExpr))
    IN  IF ~lhsTypeDen.ok THEN lhsTypeDen
        ELSE LET rhsTypeDen == TypedASTGetTypeDenoter(lhsTypeDen.B,
                                                      ExprNode(exprs[j].rhsExpr))
             IN  IF ~rhsTypeDen.ok THEN rhsTypeDen
                 ELSE IF \/ ~IsCastableTo(rhsTypeDen.den, lhsTypeDen.den)
                         \/ ~IsCastableTo(lhsTypeDen.den, rhsTypeDen.den)
                 THEN Thrown(rhsTypeDen.B, ExprNode(j))
                 ELSE IF IsBooleanOp(exprs[j].op)
                 THEN Returned(Instance(FreshId(rhsTypeDen.B), BoolTypeDenoter),
                               rhsTypeDen.B)
                 ELSE Returned(lhsTypeDen.den, rhsTypeDen.B)

\* TernaryExpr::DeriveTypeDenoter that looks at the branches first
TernaryDeriveBranchesFirst(B, j) ==
    LET thenTypeDen == TypedASTGetTypeDenoter(B, ExprNode(exprs[j].thenExpr))
    IN  IF ~thenTypeDen.ok THEN thenTypeDen
        ELSE LET elseTypeDen == TypedASTGetTypeDenoter(thenTypeDen.B,
                                                       ExprNode(exprs[j].elseExpr))
             IN  IF ~elseTypeDen.ok THEN elseTypeDen
                 ELSE IF ~IsCastableTo(elseTypeDen.den, thenTypeDen.den)
                 THEN Thrown(elseTypeDen.B, ExprNode(j))
                 ELSE LET condTypeDen ==
                              TypedASTGetTypeDenoter(elseTypeDen.B,
                                                     ExprNode(exprs[j].condExpr))
                      IN  IF ~condTypeDen.ok THEN condTypeDen
                          ELSE IF ~IsCastableTo(condTypeDen.den, BoolTypeDenoter)
                          THEN Thrown(condTypeDen.B, ExprNode(exprs[j].condExpr))
                          ELSE Returned(thenTypeDen.den, condTypeDen.B)

\* TernaryExpr::DeriveTypeDenoter on expression j
TernaryExprDeriveTypeDenoter(B, j) ==
    LET condTypeDen == TypedASTGetTypeDenoter(B, ExprNode(exprs[j].condExpr))
    IN  IF ~condTypeDen.ok THEN condTypeDen
        ELSE IF ~IsCastableTo(condTypeDen.den, BoolTypeDenoter)
        THEN Thrown(condTypeDen.B, ExprNode(exprs[j].condExpr))
        ELSE LET thenTypeDen == TypedASTGetTypeDenoter(condTypeDen.B,
                                                       ExprNode(exprs[j].thenExpr))
             IN  IF ~thenTypeDen.ok THEN thenTypeDen
                 ELSE LET elseTypeDen ==
                              TypedASTGetTypeDenoter(thenTypeDen.B,
                                                     ExprNode(exprs[j].elseExpr))
                      IN  IF ~elseTypeDen.ok THEN elseTypeDen
                          ELSE IF ~IsCastableTo(elseTypeDen.den, thenTypeDen.den)
                          THEN Thrown(elseTypeDen.B, ExprNode(j))
                          ELSE Returned(thenTypeDen.den, elseTypeDen.B)

RECURSIVE NumElementsFrom(_, _, _)
\* the for loop of InitializerExpr::NumElements from element e on
NumElementsFrom(E, j, e) ==
    IF e > Len(E[j].exprs) THEN 0
    ELSE (IF E[E[j].exprs[e]].type = "InitializerExpr"
          THEN NumElementsFrom(E, E[j].exprs[e], 1)
          ELSE 1)
         + NumElementsFrom(E, j, e + 1)

\* InitializerExpr::NumElements of expression j
NumElements(E, j) == NumElementsFrom(E, j, 1)

\* InitializerExpr::DeriveTypeDenoter without the test for no elements: the
\* element type of an empty list is then whatever front() happens to read
InitializerDeriveUnchecked(B, j) ==
    IF exprs[j].exprs = <<>>
    THEN Returned(Instance(FreshId(B),
                           [kind |-> "Array",
                            baseTypeDenoter |-> Instance(FreshId(B), BoolTypeDenoter),
                            arrayDims |-> <<NullDim>>]), B)
    ELSE LET front == TypedASTGetTypeDenoter(B, ExprNode(exprs[j].exprs[1]))
         IN  IF ~front.ok THEN front
             ELSE Returned(Instance(FreshId(front.B),
                                    [kind |-> "Array",
                                     baseTypeDenoter |-> front.den,
                                     arrayDims |-> <<NullDim>>]), front.B)

\* InitializerExpr::DeriveTypeDenoter that takes the type of the last element
InitializerDeriveFromBack(B, j) ==
    IF exprs[j].exprs = <<>> THEN Thrown(B, ExprNode(j))
    ELSE LET back == TypedASTGetTypeDenoter(
                         B, ExprNode(exprs[j].exprs[Len(exprs[j].exprs)]))
         IN  IF ~back.ok THEN back
             ELSE Returned(Instance(FreshId(back.B),
                                    [kind |-> "Array",
                                     baseTypeDenoter |-> back.den,
                                     arrayDims |-> <<NullDim>>]), back.B)

\* InitializerExpr::DeriveTypeDenoter on expression j
InitializerExprDeriveTypeDenoter(B, j) ==
    IF exprs[j].exprs = <<>> THEN Thrown(B, ExprNode(j))
    ELSE LET front == TypedASTGetTypeDenoter(B, ExprNode(exprs[j].exprs[1]))
         IN  IF ~front.ok THEN front
             ELSE Returned(Instance(FreshId(front.B),
                                    [kind |-> "Array",
                                     baseTypeDenoter |-> front.den,
                                     arrayDims |-> <<NullDim>>]), front.B)

\* operators of a UnaryExpr and of a PostUnaryExpr (both hold a UnaryOp)
UnaryOps == {"LogicalNot", "Negate", "Inc"}

\* UnaryExpr::DeriveTypeDenoter without the test for a logical operator
UnaryDeriveOperandType(B, j) ==
    TypedASTGetTypeDenoter(B, ExprNode(exprs[j].expr))

\* UnaryExpr::DeriveTypeDenoter on expression j
UnaryExprDeriveTypeDenoter(B, j) ==
    LET typeDen == TypedASTGetTypeDenoter(B, ExprNode(exprs[j].expr))
    IN  IF ~typeDen.ok THEN typeDen
        ELSE IF IsLogicalOp(exprs[j].op)
        THEN Returned(Instance(FreshId(typeDen.B), BoolTypeDenoter), typeDen.B)
        ELSE typeDen

\* PostUnaryExpr::DeriveTypeDenoter on expression j
PostUnaryExprDeriveTypeDenoter(B, j) ==
    TypedASTGetTypeDenoter(B, ExprNode(exprs[j].expr))

\* identities of the denoters owned by the return type of the function
\* declaration and by the function call (its type constructor)
ReturnTypeId == 105
CallTypeId   == 106

\* intrinsics of a call; "Undefined" is Intrinsic::Undefined
Intrinsics == {"Undefined", "Abs"}

\* GetTypeDenoterForHLSLIntrinsicWithArgs: abs(x) has the type of its one
\* argument; any other number of arguments is a typing failure
IntrinsicReturnType(B, intrinsic, arguments) ==
    IF Len(arguments) # 1 THEN Thrown(B, NoSymbol)
    ELSE TypedASTGetTypeDenoter(B, ExprNode(arguments[1]))

\* FunctionCallExpr::DeriveTypeDenoter that looks at the type constructor
\* before the function declaration
FunctionCallDeriveConstructorFirst(B, j) ==
    LET c == exprs[j].call
    IN  IF c.typeDenoter # NoDen THEN Returned(c.typeDenoter, B)
        ELSE IF c.funcDeclRef # 0
        THEN Returned(Instance(ReturnTypeId,
                               functions[c.funcDeclRef].returnType.typeDenoter), B)
        ELSE IF c.intrinsic # "Undefined"
        THEN LET r == IntrinsicReturnType(B, c.intrinsic, c.arguments)
             IN  IF r.ok THEN r ELSE Thrown(r.B, ExprNode(j))
        ELSE Thrown(B, ExprNode(j))

\* FunctionCallExpr::DeriveTypeDenoter on expression j
FunctionCallExprDeriveTypeDenoter(B, j) ==
    LET c == exprs[j].call
    IN  IF c.funcDeclRef # 0
        THEN Returned(Instance(ReturnTypeId,
                               functions[c.funcDeclRef].returnType.typeDenoter), B)
        ELSE IF c.typeDenoter # NoDen THEN Returned(c.typeDenoter, B)
        ELSE IF c.intrinsic # "Undefined"
        THEN LET r == IntrinsicReturnType(B, c.intrinsic, c.arguments)
             IN  IF r.ok THEN r ELSE Thrown(r.B, ExprNode(j))
        ELSE Thrown(B, ExprNode(j))

\* the DeriveTypeDenoter() override of expression j
ExprDeriveTypeDenoter(B, j) ==
    CASE exprs[j].type = "LiteralExpr" ->
            Returned(Instance(FreshId(B),
                              [kind |-> "Base", dataType |-> exprs[j].dataType]), B)
      [] exprs[j].type = "VarAccessExpr" ->
            TypedASTGetTypeDenoter(B, VarIdentNode(exprs[j].varIdent))
      [] exprs[j].type = "BinaryExpr" -> BinaryExprDeriveTypeDenoter(B, j)
      [] exprs[j].type = "TernaryExpr" -> TernaryExprDeriveTypeDenoter(B, j)
      [] exprs[j].type = "InitializerExpr" -> InitializerExprDeriveTypeDenoter(B, j)
      [] exprs[j].type = "UnaryExpr" -> UnaryExprDeriveTypeDenoter(B, j)
      [] exprs[j].type = "PostUnaryExpr" -> PostUnaryExprDeriveTypeDenoter(B, j)
      [] exprs[j].type = "FunctionCallExpr" -> FunctionCallExprDeriveTypeDenoter(B, j)

\* the DeriveTypeDenoter() override of typed node n
DeriveTypeDenoter(B, n) ==
    CASE n = LiteralNode ->
            Returned(Instance(FreshId(B),
                              [kind |-> "Base", dataType |-> literal.dataType]), B)
      [] n = UnaryNode ->
            LET typeDen == TypedASTGetTypeDenoter(B, LiteralNode)
            IN  IF ~typeDen.ok THEN typeDen
                ELSE IF IsLogicalOp(unaryExpr.op)
                THEN Returned(Instance(FreshId(typeDen.B),
                                       [kind |-> "Base", dataType |-> "Bool"]),
                              typeDen.B)
                ELSE typeDen
      [] n = VarDeclNode ->
            IF varDecl.declStmntRef # 0
            THEN Returned(AsArray(B, Instance(VarTypeId, varDecl.varType.typeDenoter),
                                  varDecl.arrayDims), B)
            ELSE Thrown(B, n)
      [] n = MemberDeclNode ->
            Returned(Instance(MemberTypeId,
                              structs[1].members[1].varType.typeDenoter), B)
      [] n = BufferDeclNode ->
            Returned(Instance(FreshId(B), [kind |-> "Buffer", bufferDeclRef |-> n]), B)
      [] n = SamplerDeclNode ->
            Returned(Instance(FreshId(B), [kind |-> "Sampler", samplerDeclRef |-> n]), B)
      [] n = StructDeclNode ->
            Returned(Instance(FreshId(B), [kind |-> "Struct", structDeclRef |-> 1]), B)
      [] n = AliasDeclNode ->
            Returned(Instance(AliasTypeId, aliasDecls[1].typeDenoter), B)
      [] n = AliasOfAliasDeclNode ->
            Returned(Instance(AliasOfAliasTypeId, aliasDecls[2].typeDenoter), B)
      [] n[1] = "VarIdent" -> GetExplicitTypeDenoter(B, n[2], TRUE)
      [] n[1] = "Expr" -> ExprDeriveTypeDenoter(B, n[2])

\* GetTypeDenoter that buffers an undefined denoter when the derivation fails
GetTypeDenoterBuffersFailure(B, n) ==
    IF B[n] # NoDen THEN Returned(B[n], B)
    ELSE LET r == DeriveTypeDenoter(B, n)
         IN  IF r.ok THEN Returned(r.den, [r.B EXCEPT ![n] = r.den])
             ELSE [r EXCEPT !.B = [r.B EXCEPT ![n] =
                                     Instance(FreshId(r.B), [kind |-> "Undefined"])]]

\* GetTypeDenoter that derives on every call
GetTypeDenoterUnbuffered(B, n) ==
    LET r == DeriveTypeDenoter(B, n)
    IN  IF r.ok THEN Returned(r.den, [r.B EXCEPT ![n] = r.den]) ELSE r

\* TypedAST::GetTypeDenoter on node n with the buffers B: the returned
\* denoter and the buffers afterwards
TypedASTGetTypeDenoter(B, n) ==
    IF B[n] # NoDen THEN Returned(B[n], B)
    ELSE LET r == DeriveTypeDenoter(B, n)
         IN  IF r.ok THEN Returned(r.den, [r.B EXCEPT ![n] = r.den]) ELSE r

\* the typed nodes that exist
LiveNodes == {n \in DOMAIN bufferedTypeDenoter :
                 n[1] = "VarIdent" => n[2] \in LiveVarIdents(varIdents)}

GetTypeDenoter(n) ==
    /\ n \in LiveNodes
    /\ LET r == TypedASTGetTypeDenoter(bufferedTypeDenoter, n)
       IN  /\ bufferedTypeDenoter' = r.B
           /\ call' = [op |-> "GetTypeDenoter"]
    /\ UNCHANGED <<declVars, exprs, toolVars, literal, unaryExpr, varDecl, varIdents>>

\* GetTypeDenoter(n) as its caller sees it: the denoter returned, or the
\* error caught and the node it is pinned to
CallGetTypeDenoter(n) ==
    /\ n \in LiveNodes
    /\ LET r == TypedASTGetTypeDenoter(bufferedTypeDenoter, n)
       IN  /\ bufferedTypeDenoter' = r.B
           /\ call' = [op |-> "GetTypeDenoter", node |-> n, ok |-> r.ok,
                       den |-> r.den, at |-> r.at]
    /\ UNCHANGED <<declVars, exprs, toolVars, literal, unaryExpr, varDecl, varIdents>>

\* NumElements() called on the initializer list that is expression j
CallNumElements(j) ==
    /\ j \in DOMAIN exprs
    /\ exprs[j].type = "InitializerExpr"
    /\ call' = [op |-> "NumElements", node |-> ExprNode(j),
                result |-> NumElements(exprs, j)]
    /\ UNCHANGED <<declVars, exprVars, exprs, toolVars>>

ResetBufferedTypeDenoter(n) ==
    /\ n \in LiveNodes
    /\ bufferedTypeDenoter' = [bufferedTypeDenoter EXCEPT ![n] = NoDen]
    /\ call' = [op |-> "ResetBufferedTypeDenoter"]
    /\ UNCHANGED <<declVars, exprs, toolVars, literal, unaryExpr, varDecl, varIdents>>

\* the value string ConvertDataType writes for the target type
ConvertedValue(value, type) ==
    LET variant == VariantParseFrom(value)
    IN  CASE type = "Bool"  -> VariantToString(VariantToBool(variant))
          [] type = "Int"   -> VariantToString(VariantToInt(variant))
          [] type = "UInt"  -> VariantToString(VariantToInt(variant)) \o <<"u">>
          [] type = "Float" -> VariantToString(VariantToReal(variant))
          [] OTHER          -> value

\* ConvertDataType without the test dataType != type
ConvertUnguarded(lit, type) ==
    [dataType |-> type, value |-> ConvertedValue(lit.value, type),
     bufferedTypeDenoter |-> NoDen]

\* ConvertDataType without the call of ResetBufferedTypeDenoter
ConvertKeepsBuffer(lit, type) ==
    IF lit.dataType # type
    THEN [dataType |-> type, value |-> ConvertedValue(lit.value, type),
          bufferedTypeDenoter |-> lit.bufferedTypeDenoter]
    ELSE lit

\* the literal after LiteralExpr::ConvertDataType(type), buffer included
LiteralExprConvert(lit, type) ==
    IF lit.dataType # type
    THEN [dataType |-> type, value |-> ConvertedValue(lit.value, type),
          bufferedTypeDenoter |-> NoDen]
    ELSE lit

\* the LiteralExpr node with its buffer
LiteralExpr ==
    [dataType |-> literal.dataType, value |-> literal.value,
     bufferedTypeDenoter |-> bufferedTypeDenoter[LiteralNode]]

ConvertDataType(type) ==
    /\ LiteralNode \in DOMAIN bufferedTypeDenoter
    /\ LET lit == LiteralExprConvert(LiteralExpr, type)
       IN  /\ literal' = [dataType |-> lit.dataType, value |-> lit.value]
           /\ bufferedTypeDenoter' =
                 [bufferedTypeDenoter EXCEPT ![LiteralNode] = lit.bufferedTypeDenoter]
    /\ call' = [op |-> "ConvertDataType"]
    /\ UNCHANGED <<declVars, exprs, toolVars, unaryExpr, varDecl, varIdents>>


(* --- the expression tree:  !2 or -2,  and the identifier chain a[i].b --- *)

\* struct S { float b; };
ProgramStructs ==
    <<[baseStructRef |-> 0,
       members |-> <<[varType  |-> [typeDenoter |-> FloatTypeDenoter],
                      varDecls |-> <<[ident |-> <<"b">>]>>]>>]>>

\* float a[1];   and   S a;   declStmntRef 1 is the statement of the
\* declaration, whose varType is kept with the declarator
VarDeclInits ==
    {[declStmntRef |-> 1, varType |-> [typeDenoter |-> FloatTypeDenoter],
      arrayDims |-> <<1>>],
     [declStmntRef |-> 1,
      varType |-> [typeDenoter |-> [kind |-> "Struct", structDeclRef |-> 1]],
      arrayDims |-> <<>>]}

\* what the head of the chain can be bound to
HeadSymbols ==
    {VarDeclNode, StructDeclNode, AliasDeclNode, FunctionDeclNode, NoSymbol}

\* what a later segment can be bound to
MemberSymbols == {MemberDeclNode, NoSymbol}

\* the declarations a chain refers to: the symbols of its segments and, for
\* a variable of struct type, the member the descent fetches
ReferredDecls(ref, decl) ==
    ({ref[k] : k \in DOMAIN ref} \ {NoSymbol, FunctionDeclNode})
    \cup (IF decl.varType.typeDenoter.kind = "Struct" /\ VarDeclNode \in {ref[k] : k \in DOMAIN ref}
          THEN {MemberDeclNode} ELSE {})

TypedNodes ==
    {LiteralNode, UnaryNode, VarDeclNode, MemberDeclNode, StructDeclNode, AliasDeclNode}
    \cup {VarIdentNode(k) : k \in 1..MaxExprChain}

\* literal targets of the expression tree
ExprDataTypes == {"Int", "Float"}

Init ==
    /\ structs = ProgramStructs
    /\ functions = <<>>
    /\ declStmnt = NoStmnt
    /\ literal = [dataType |-> "Int", value |-> <<"2">>]
    /\ unaryExpr = [op |-> "Negate"]
    /\ varDecl \in VarDeclInits
    /\ \E n \in 1..MaxExprChain :
         \E indices \in [1..n -> IndexLists],
            ref \in [1..n -> HeadSymbols \cup MemberSymbols] :
            /\ ref[1] \in HeadSymbols
            /\ \A k \in 2..n : ref[k] \in MemberSymbols
            /\ varIdents = ChainOf(n, [k \in 1..n |-> IF k = 1 THEN <<"a">> ELSE <<"b">>],
                                   indices, ref)
            /\ bufferedTypeDenoter =
                  [x \in {LiteralNode} \cup ReferredDecls(ref, varDecl)
                         \cup {VarIdentNode(k) : k \in 1..n} |-> NoDen]
    /\ exprs = <<>>
    /\ NoTool
    /\ call = NoCall

Next ==
    \/ \E n \in TypedNodes : GetTypeDenoter(n)
    \/ \E n \in TypedNodes : ResetBufferedTypeDenoter(n)
    \/ \E t \in ExprDataTypes : ConvertDataType(t)
    \/ \E k \in 1..MaxExprChain : PopFront(k)

Spec == Init /\ [][Next]_vars


(* --- the literal and the unary expression over it --- *)

\* literals as the parser makes them
LiteralInits ==
    {[dataType |-> "Bool",  value |-> <<"t", "r", "u", "e">>],
     [dataType |-> "Int",   value |-> <<"0">>],
     [dataType |-> "Int",   value |-> <<"2">>],
     [dataType |-> "UInt",  value |-> <<"3", "u">>],
     [dataType |-> "Float", value |-> <<"1", ".", "5">>]}

InitLiteral ==
    /\ structs = <<>>
    /\ functions = <<>>
    /\ declStmnt = NoStmnt
    /\ literal \in LiteralInits
    /\ unaryExpr \in {[op |-> "LogicalNot"], [op |-> "Negate"]}
    /\ varDecl = [declStmntRef |-> 0]
    /\ varIdents = <<>>
    /\ bufferedTypeDenoter = [x \in {LiteralNode, UnaryNode} |-> NoDen]
    /\ exprs = <<>>
    /\ NoTool
    /\ call = NoCall

NextLiteral ==
    \/ \E n \in {LiteralNode, UnaryNode} : GetTypeDenoter(n)
    \/ \E n \in {LiteralNode, UnaryNode} : ResetBufferedTypeDenoter(n)
    \/ \E t \in DataTypes : ConvertDataType(t)

SpecLiteral == InitLiteral /\ [][NextLiteral]_vars

(* --- what the buffering claims are stated with --- *)

\* the step changes the literal's data type
LiteralMutated == literal'.dataType # literal.dataType

\* C1: GetTypeDenoter() on a node whose derivation succeeds returns a
\* non-null denoter, which is then the node's buffered denoter; a buffered
\* denoter is returned as it is, with nothing derived again, and stays the
\* same instance over every step that does not reset the node's buffer.
BufferedDenoterStable ==
    [][\A n \in LiveNodes :
          LET r == TypedASTGetTypeDenoter(bufferedTypeDenoter, n)
          IN  /\ r.ok => r.den # NoDen /\ r.B[n] = r.den
              /\ bufferedTypeDenoter[n] # NoDen =>
                    /\ r.ok /\ r.den = bufferedTypeDenoter[n]
                    /\ r.B = bufferedTypeDenoter
              /\ GetTypeDenoter(n) /\ r.ok => bufferedTypeDenoter'[n] = r.den
              /\ ( /\ bufferedTypeDenoter[n] # NoDen
                   /\ n \in LiveNodes'
                   /\ ~ResetBufferedTypeDenoter(n)
                   /\ ~(n = LiteralNode /\ LiteralMutated) )
                 => bufferedTypeDenoter'[n] = bufferedTypeDenoter[n]
      ]_vars

\* every node of a tree with a two-segment chain has a buffered denoter after
\* a GetTypeDenoter() call; the chain's is the denoter of the member it ends
\* in, not that of the variable it starts from
BufferedDenoterWitness ==
    /\ call.op = "GetTypeDenoter"
    /\ LiteralNode \in DOMAIN bufferedTypeDenoter
    /\ VarDeclNode \in DOMAIN bufferedTypeDenoter
    /\ Len(varIdents) = 2
    /\ varIdents[1].next = 2
    /\ \A n \in LiveNodes : bufferedTypeDenoter[n] # NoDen
    /\ bufferedTypeDenoter[VarIdentNode(1)].id # bufferedTypeDenoter[VarDeclNode].id

\* C2: a node's buffered denoter goes from set to empty in a step exactly
\* when the step is ResetBufferedTypeDenoter on that node or a
\* ConvertDataType that changes the data type of that literal; every change
\* of the literal's data type is made by ConvertDataType and leaves its
\* buffer empty.
InvalidatedByResetOrConvert ==
    [][\A n \in LiveNodes \cap LiveNodes' :
          /\ (bufferedTypeDenoter[n] # NoDen /\ bufferedTypeDenoter'[n] = NoDen)
             <=> ( /\ bufferedTypeDenoter[n] # NoDen
                   /\ \/ ResetBufferedTypeDenoter(n)
                      \/ n = LiteralNode /\ LiteralMutated )
          /\ LiteralMutated =>
                /\ \E t \in DataTypes : ConvertDataType(t)
                /\ bufferedTypeDenoter'[LiteralNode] = NoDen
      ]_vars

\* the literal was converted to another type while it and a chain segment
\* had buffered denoters: the literal's buffer is empty, the segment's not
InvalidatedWitness ==
    /\ call.op = "ConvertDataType"
    /\ LiteralNode \in DOMAIN bufferedTypeDenoter
    /\ literal.dataType = "Float"
    /\ bufferedTypeDenoter[LiteralNode] = NoDen
    /\ varIdents # <<>>
    /\ bufferedTypeDenoter[VarIdentNode(1)] # NoDen

\* C3: ConvertDataType(t) on a literal that already has type t changes
\* nothing, its buffered denoter included, and ConvertDataType(t) twice
\* gives the literal that ConvertDataType(t) gives once.
ConvertIdempotent ==
    \A t \in DataTypes :
        LET once == LiteralExprConvert(LiteralExpr, t)
        IN  /\ once.dataType = t
            /\ LiteralExprConvert(once, t) = once
            /\ LiteralExpr.dataType = t => once = LiteralExpr

\* ConvertDataType(UInt) was called on a literal that was UInt already and
\* had a buffered denoter, which it still has
ConvertIdempotentWitness ==
    /\ call.op = "ConvertDataType"
    /\ LiteralNode \in DOMAIN bufferedTypeDenoter
    /\ literal.dataType = "UInt"
    /\ literal.value = <<"1", "u">>
    /\ bufferedTypeDenoter[LiteralNode] # NoDen


(* --- identifier chains bound to every kind of declaration --- *)

\* what the head of a chain can be bound to by the resolver, a function
\* standing for the kinds GetExplicitTypeDenoter has no case for
DeriveHeadSymbols ==
    {VarDeclNode, BufferDeclNode, SamplerDeclNode, StructDeclNode, AliasDeclNode,
     AliasOfAliasDeclNode, FunctionDeclNode, NoSymbol}

InitDerive ==
    /\ structs = ProgramStructs
    /\ functions = <<>>
    /\ declStmnt = NoStmnt
    /\ literal = [dataType |-> "Int", value |-> <<"0">>]
    /\ unaryExpr = [op |-> "Negate"]
    /\ varDecl \in VarDeclInits
    /\ \E n \in 1..MaxExprChain :
         \E indices \in [1..n -> IndexLists],
            ref \in [1..n -> DeriveHeadSymbols \cup MemberSymbols] :
            /\ ref[1] \in DeriveHeadSymbols
            /\ \A k \in 2..n : ref[k] \in MemberSymbols
            /\ varIdents = ChainOf(n, [k \in 1..n |-> IF k = 1 THEN <<"a">> ELSE <<"b">>],
                                   indices, ref)
            /\ bufferedTypeDenoter =
                  [x \in ReferredDecls(ref, varDecl)
                         \cup {VarIdentNode(k) : k \in 1..n} |-> NoDen]
    /\ exprs = <<>>
    /\ NoTool
    /\ call = NoCall

DeriveNodes ==
    DeriveHeadSymbols \cup MemberSymbols \cup {VarIdentNode(k) : k \in 1..MaxExprChain}

NextDerive ==
    \/ \E n \in DeriveNodes : CallGetTypeDenoter(n)
    \/ \E n \in DeriveNodes : ResetBufferedTypeDenoter(n)

SpecDerive == InitDerive /\ [][NextDerive]_vars

\* declaration kinds GetExplicitTypeDenoter derives a type from
DerivableKinds == {"VarDecl", "BufferDecl", "SamplerDecl", "StructDecl", "AliasDecl"}

\* C11: deriving the type of a VarIdent gives a denoter only if its symbolRef
\* is set and is a VarDecl, BufferDecl, SamplerDecl, StructDecl or AliasDecl;
\* with no symbolRef or one of another kind it ends in an error pinned to
\* that VarIdent, and so does every GetTypeDenoter() call on it.
DerivesOnlyFromDeclKinds ==
    /\ \A k \in LiveVarIdents(varIdents) :
          LET r == DeriveTypeDenoter(bufferedTypeDenoter, VarIdentNode(k))
              symbolRef == varIdents[k].symbolRef
          IN  /\ r.ok => symbolRef # NoSymbol /\ symbolRef[1] \in DerivableKinds
              /\ (symbolRef = NoSymbol \/ symbolRef[1] \notin DerivableKinds)
                    => /\ ~r.ok
                       /\ r.den = NoDen
                       /\ r.at = VarIdentNode(k)
                       /\ bufferedTypeDenoter[VarIdentNode(k)] = NoDen
    /\ (call.op = "GetTypeDenoter" /\ call.node[1] = "VarIdent") =>
          LET symbolRef == varIdents[call.node[2]].symbolRef
          IN  /\ call.ok => symbolRef # NoSymbol /\ symbolRef[1] \in DerivableKinds
              /\ (symbolRef = NoSymbol \/ symbolRef[1] \notin DerivableKinds)
                    => ~call.ok /\ call.den = NoDen /\ call.at = call.node

\* GetTypeDenoter() on an identifier bound to a function ended in an error
\* pinned to the identifier
DerivesOnlyFromDeclKindsWitness ==
    /\ call.op = "GetTypeDenoter"
    /\ call.node = VarIdentNode(1)
    /\ varIdents[1].symbolRef = FunctionDeclNode
    /\ ~call.ok
    /\ call.at = VarIdentNode(1)

\* C12: for a VarIdent bound to a StructDecl or an AliasDecl the derivation
\* is an error pinned to the next segment when there is one, else an error
\* pinned to the VarIdent when it has array indices, else the declaration's
\* type denoter with alias indirection stripped.
StructAliasDirectOnly ==
    \A k \in LiveVarIdents(varIdents) :
        LET B == bufferedTypeDenoter
            r == DeriveTypeDenoter(B, VarIdentNode(k))
            symbolRef == varIdents[k].symbolRef
            decl == TypedASTGetTypeDenoter(B, symbolRef)
        IN  symbolRef[1] \in {"StructDecl", "AliasDecl"} =>
              /\ varIdents[k].next # 0 =>
                    ~r.ok /\ r.at = VarIdentNode(varIdents[k].next)
              /\ (varIdents[k].next = 0 /\ varIdents[k].arrayIndices # <<>>) =>
                    ~r.ok /\ r.at = VarIdentNode(k)
              /\ (varIdents[k].next = 0 /\ varIdents[k].arrayIndices = <<>>) =>
                    /\ r.ok
                    /\ decl.ok
                    /\ r.den.kind # "Alias"
                    /\ symbolRef[1] = "StructDecl" =>
                          r.den = decl.den /\ r.den.structDeclRef = symbolRef[2]
                    /\ symbolRef = AliasDeclNode => r.den = decl.den
                    /\ symbolRef = AliasOfAliasDeclNode =>
                          /\ decl.den.kind = "Alias"
                          /\ r.den = Instance(AliasTypeId,
                                              aliasDecls[decl.den.aliasDeclRef].typeDenoter)

\* GetTypeDenoter() on a struct name with array indices and a next segment
\* ended in an error pinned to the next segment
StructAliasDirectOnlyWitness ==
    /\ call.op = "GetTypeDenoter"
    /\ call.node = VarIdentNode(1)
    /\ varIdents[1].symbolRef = StructDeclNode
    /\ varIdents[1].next = 2
    /\ varIdents[1].arrayIndices # <<>>
    /\ ~call.ok
    /\ call.at = VarIdentNode(2)


(* --- binary, ternary and initializer expressions over literals and a variable --- *)

\* most elements of one initializer list
MaxElements == 2

\* float2x2 a;   besides   float a[1];   and   S a;
ExprVarDecls ==
    VarDeclInits
    \cup {[declStmntRef |-> 1,
           varType |-> [typeDenoter |-> [kind |-> "Base", dataType |-> "Float2x2"]],
           arrayDims |-> <<>>]}

\* operands:  true,  1.5,  and the variable  a
Leaves ==
    {[type |-> "LiteralExpr", dataType |-> "Bool"],
     [type |-> "LiteralExpr", dataType |-> "Float"],
     [type |-> "VarAccessExpr", varIdent |-> 1]}

\*  l op r
BinaryTrees ==
    {<<l, r, [type |-> "BinaryExpr", op |-> op, lhsExpr |-> 1, rhsExpr |-> 2]>> :
        l \in Leaves, r \in Leaves, op \in BinaryOps}

\*  c ? t : e
TernaryTrees ==
    {<<c, t, e, [type |-> "TernaryExpr", condExpr |-> 1, thenExpr |-> 2,
                 elseExpr |-> 3]>> :
        c \in Leaves, t \in Leaves, e \in Leaves}

\* an element of an initializer list: an operand, or a nested list of n
\* float literals
Elements ==
    {[type |-> e.type, leaf |-> e, n |-> 0] : e \in Leaves}
    \cup {[type |-> "InitializerExpr", leaf |-> <<>>, n |-> n] : n \in 0..MaxElements}

RECURSIVE InitializerTreeFrom(_, _, _)
\* the nodes of the list { elems }: the nodes of every element, then the list
InitializerTreeFrom(nodes, refs, elems) ==
    IF elems = <<>>
    THEN nodes \o <<[type |-> "InitializerExpr", exprs |-> refs]>>
    ELSE LET e == Head(elems)
             nodes1 ==
                 IF e.type = "InitializerExpr"
                 THEN nodes
                      \o [i \in 1..e.n |-> [type |-> "LiteralExpr", dataType |-> "Float"]]
                      \o <<[type |-> "InitializerExpr",
                            exprs |-> [i \in 1..e.n |-> Len(nodes) + i]]>>
                 ELSE nodes \o <<e.leaf>>
         IN  InitializerTreeFrom(nodes1, refs \o <<Len(nodes1)>>, Tail(elems))

\*  { e1, ..., em }  with nested lists among the elements
InitializerTrees ==
    {InitializerTreeFrom(<<>>, <<>>, elems) :
        elems \in UNION {[1..m -> Elements] : m \in 0..MaxElements}}

InitExpr ==
    /\ structs = ProgramStructs
    /\ functions = <<>>
    /\ declStmnt = NoStmnt
    /\ literal = [dataType |-> "Int", value |-> <<"0">>]
    /\ unaryExpr = [op |-> "Negate"]
    /\ varDecl \in ExprVarDecls
    /\ varIdents = ChainOf(1, <<<<"a">>>>, <<<<>>>>, <<VarDeclNode>>)
    /\ exprs \in BinaryTrees \cup TernaryTrees \cup InitializerTrees
    /\ bufferedTypeDenoter =
          [x \in {VarDeclNode, VarIdentNode(1)} \cup {ExprNode(j) : j \in DOMAIN exprs}
              |-> NoDen]
    /\ NoTool
    /\ call = NoCall

\* the root of the tree
Root == Len(exprs)

NextExpr ==
    \/ CallGetTypeDenoter(ExprNode(1))
    \/ CallGetTypeDenoter(ExprNode(Root))
    \/ ResetBufferedTypeDenoter(ExprNode(Root))
    \/ CallNumElements(Root)

SpecExpr == InitExpr /\ [][NextExpr]_vars

(* --- what the claims on expressions are stated with --- *)

\* the expressions of the given type
ExprsOfType(type) == {j \in DOMAIN exprs : exprs[j].type = type}

\* the last call was GetTypeDenoter() on expression j
CalledOn(j) == call.op = "GetTypeDenoter" /\ call.node = ExprNode(j)

RECURSIVE FlattenedElements(_, _)
\* the expressions of list j that are not lists, those of nested lists included
FlattenedElements(E, j) ==
    UNION {IF E[E[j].exprs[e]].type = "InitializerExpr"
           THEN FlattenedElements(E, E[j].exprs[e])
           ELSE {E[j].exprs[e]} : e \in DOMAIN E[j].exprs}

\* C13: deriving the type of an InitializerExpr with no elements fails with
\* an error pinned to the initializer node, whatever is buffered, and never
\* gives or buffers a denoter; so does every GetTypeDenoter() call on it.
EmptyInitializerFails ==
    \A j \in ExprsOfType("InitializerExpr") :
        exprs[j].exprs = <<>> =>
            LET r == TypedASTGetTypeDenoter(bufferedTypeDenoter, ExprNode(j))
            IN  /\ ~r.ok
                /\ r.den = NoDen
                /\ r.at = ExprNode(j)
                /\ r.B = bufferedTypeDenoter
                /\ bufferedTypeDenoter[ExprNode(j)] = NoDen
                /\ CalledOn(j) => ~call.ok /\ call.den = NoDen /\ call.at = ExprNode(j)

\* GetTypeDenoter() was called on the list {} and ended in an error pinned
\* to the list
EmptyInitializerWitness ==
    /\ exprs = <<[type |-> "InitializerExpr", exprs |-> <<>>]>>
    /\ CalledOn(1)
    /\ ~call.ok
    /\ call.at = ExprNode(1)

\* C14 as stated: the type derived for a non-empty InitializerExpr is an
\* array of the first element's type whose size is NumElements().
InitializerArrayOfNumElements ==
    \A j \in ExprsOfType("InitializerExpr") :
        LET r     == TypedASTGetTypeDenoter(bufferedTypeDenoter, ExprNode(j))
            front == TypedASTGetTypeDenoter(bufferedTypeDenoter,
                                            ExprNode(exprs[j].exprs[1]))
        IN  (exprs[j].exprs # <<>> /\ r.ok) =>
                /\ r.den.kind = "Array"
                /\ r.den.baseTypeDenoter = front.den
                /\ r.den.arrayDims = <<NumElements(exprs, j)>>

\* C14: the type derived for a non-empty InitializerExpr is an array denoter
\* whose element type is the type denoter of the first element and which has
\* one dimension, without a size; NumElements() is the number of elements
\* that are not lists, those of nested lists included, and is no part of the
\* derived type.
InitializerArrayUnsized ==
    /\ \A j \in ExprsOfType("InitializerExpr") :
          LET r     == TypedASTGetTypeDenoter(bufferedTypeDenoter, ExprNode(j))
              front == TypedASTGetTypeDenoter(bufferedTypeDenoter,
                                              ExprNode(exprs[j].exprs[1]))
          IN  /\ (exprs[j].exprs # <<>> /\ r.ok) =>
                    /\ front.ok
                    /\ r.den.kind = "Array"
                    /\ r.den.baseTypeDenoter = front.den
                    /\ r.den.arrayDims = <<NullDim>>
              /\ (exprs[j].exprs # <<>> /\ front.ok) => r.ok
              /\ NumElements(exprs, j) = Cardinality(FlattenedElements(exprs, j))
    /\ call.op = "NumElements" =>
          call.result = Cardinality(FlattenedElements(exprs, call.node[2]))

\* the list { true, { 1.5, 1.5 } } has a buffered type: an array of bool
\* with one unsized dimension, while its NumElements() is 3
InitializerArrayWitness ==
    /\ Root = 5
    /\ exprs[Root].type = "InitializerExpr"
    /\ Len(exprs[Root].exprs) = 2
    /\ exprs[1] = [type |-> "LiteralExpr", dataType |-> "Bool"]
    /\ CalledOn(Root)
    /\ call.ok
    /\ bufferedTypeDenoter[ExprNode(Root)].kind = "Array"
    /\ bufferedTypeDenoter[ExprNode(Root)].baseTypeDenoter = bufferedTypeDenoter[ExprNode(1)]
    /\ bufferedTypeDenoter[ExprNode(Root)].baseTypeDenoter.dataType = "Bool"
    /\ NumElements(exprs, Root) = 3

TernaryConditionThenBranches ==
    \A j \in ExprsOfType("TernaryExpr") :
        LET B    == bufferedTypeDenoter
            cond == TypedASTGetTypeDenoter(B, ExprNode(exprs[j].condExpr))
            then == TypedASTGetTypeDenoter(cond.B, ExprNode(exprs[j].thenExpr))
            else == TypedASTGetTypeDenoter(then.B, ExprNode(exprs[j].elseExpr))
            r    == DeriveTypeDenoter(B, ExprNode(j))
        IN  (cond.ok /\ then.ok /\ else.ok) =>
              IF ~IsCastableTo(cond.den, BoolTypeDenoter)
              THEN /\ ~r.ok
                   /\ r.at = ExprNode(exprs[j].condExpr)
                   /\ r.B = cond.B
                   /\ CalledOn(j) => ~call.ok /\ call.at = ExprNode(exprs[j].condExpr)
              ELSE IF ~IsCastableTo(else.den, then.den)
              THEN /\ ~r.ok
                   /\ r.at = ExprNode(j)
                   /\ CalledOn(j) => ~call.ok /\ call.at = ExprNode(j)
              ELSE /\ r.ok
                   /\ r.den = then.den
                   /\ CalledOn(j) =>
                         call.ok /\ call.den = bufferedTypeDenoter[ExprNode(exprs[j].thenExpr)]

\* GetTypeDenoter() on  a ? 1.5 : a  with  S a, where neither test passes,
\* ended in an error pinned to the condition, and no branch type was derived
TernaryConditionWitness ==
    /\ Root = 4
    /\ exprs[Root].type = "TernaryExpr"
    /\ exprs[1].type = "VarAccessExpr"
    /\ exprs[2] = [type |-> "LiteralExpr", dataType |-> "Float"]
    /\ exprs[3].type = "VarAccessExpr"
    /\ varDecl.varType.typeDenoter.kind = "Struct"
    /\ CalledOn(Root)
    /\ ~call.ok
    /\ call.at = ExprNode(1)
    /\ bufferedTypeDenoter[ExprNode(1)] # NoDen
    /\ bufferedTypeDenoter[ExprNode(2)] = NoDen
    /\ bufferedTypeDenoter[ExprNode(3)] = NoDen


(* ----- OutputShaderVersion (inc/Xsc/Targets.h) ----- *)

\* the enumeration with ESSL and VKSL auto-detection written without their
\* family tag
OutputShaderVersionUntagged ==
    <<[name |-> <<"G", "L", "S", "L", "1", "1", "0">>, value |-> 110],
      [name |-> <<"G", "L", "S", "L", "1", "2", "0">>, value |-> 120],
      [name |-> <<"G", "L", "S", "L", "1", "3", "0">>, value |-> 130],
      [name |-> <<"G", "L", "S", "L", "1", "4", "0">>, value |-> 140],
      [name |-> <<"G", "L", "S", "L", "1", "5", "0">>, value |-> 150],
      [name |-> <<"G", "L", "S", "L", "3", "3", "0">>, value |-> 330],
      [name |-> <<"G", "L", "S", "L", "4", "0", "0">>, value |-> 400],
      [name |-> <<"G", "L", "S", "L", "4", "1", "0">>, value |-> 410],
      [name |-> <<"G", "L", "S", "L", "4", "2", "0">>, value |-> 420],
      [name |-> <<"G", "L", "S", "L", "4", "3", "0">>, value |-> 430],
      [name |-> <<"G", "L", "S", "L", "4", "4", "0">>, value |-> 440],
      [name |-> <<"G", "L", "S", "L", "4", "5", "0">>, value |-> 450],
      [name |-> <<"G", "L", "S", "L">>,                value |-> 16^4 - 1],
      [name |-> <<"E", "S", "S", "L", "1", "0", "0">>, value |-> 16^4 + 100],
      [name |-> <<"E", "S", "S", "L", "3", "0", "0">>, value |-> 16^4 + 300],
      [name |-> <<"E", "S", "S", "L", "3", "1", "0">>, value |-> 16^4 + 310],
      [name |-> <<"E", "S", "S", "L", "3", "2", "0">>, value |-> 16^4 + 320],
      [name |-> <<"E", "S", "S", "L">>,                value |-> 16^4 - 1],
      [name |-> <<"V", "K", "S", "L", "4", "5", "0">>, value |-> 2 * 16^4 + 450],
      [name |-> <<"V", "K", "S", "L">>,                value |-> 16^4 - 1]>>

\* enum class OutputShaderVersion: every enumerator with the value its
\* initializer evaluates to; 16^4 is 0x00010000
OutputShaderVersion ==
    <<[name |-> <<"G", "L", "S", "L", "1", "1", "0">>, value |-> 110],
      [name |-> <<"G", "L", "S", "L", "1", "2", "0">>, value |-> 120],
      [name |-> <<"G", "L", "S", "L", "1", "3", "0">>, value |-> 130],
      [name |-> <<"G", "L", "S", "L", "1", "4", "0">>, value |-> 140],
      [name |-> <<"G", "L", "S", "L", "1", "5", "0">>, value |-> 150],
      [name |-> <<"G", "L", "S", "L", "3", "3", "0">>, value |-> 330],
      [name |-> <<"G", "L", "S", "L", "4", "0", "0">>, value |-> 400],
      [name |-> <<"G", "L", "S", "L", "4", "1", "0">>, value |-> 410],
      [name |-> <<"G", "L", "S", "L", "4", "2", "0">>, value |-> 420],
      [name |-> <<"G", "L", "S", "L", "4", "3", "0">>, value |-> 430],
      [name |-> <<"G", "L", "S", "L", "4", "4", "0">>, value |-> 440],
      [name |-> <<"G", "L", "S", "L", "4", "5", "0">>, value |-> 450],
      [name |-> <<"G", "L", "S", "L">>,                value |-> 16^4 - 1],
      [name |-> <<"E", "S", "S", "L", "1", "0", "0">>, value |-> 16^4 + 100],
      [name |-> <<"E", "S", "S", "L", "3", "0", "0">>, value |-> 16^4 + 300],
      [name |-> <<"E", "S", "S", "L", "3", "1", "0">>, value |-> 16^4 + 310],
      [name |-> <<"E", "S", "S", "L", "3", "2", "0">>, value |-> 16^4 + 320],
      [name |-> <<"E", "S", "S", "L">>,                value |-> 2 * 16^4 - 1],
      [name |-> <<"V", "K", "S", "L", "4", "5", "0">>, value |-> 2 * 16^4 + 450],
      [name |-> <<"V", "K", "S", "L">>,                value |-> 3 * 16^4 - 1]>>

\* the enumerators, by their place in the enumeration
Enumerators == DOMAIN OutputShaderVersion

\* IsLanguageGLSL, IsLanguageESSL, IsLanguageVKSL: the language the family tag
\* in the upper 16 bits stands for
LanguageOf(value) ==
    CASE value \div 2^16 = 0 -> <<"G", "L", "S", "L">>
      [] value \div 2^16 = 1 -> <<"E", "S", "S", "L">>
      [] value \div 2^16 = 2 -> <<"V", "K", "S", "L">>
      [] OTHER -> <<>>

\* the language of enumerator a is asked for
CallIsLanguage(a) ==
    /\ call' = [op |-> "IsLanguage", a |-> a,
                result |-> LanguageOf(OutputShaderVersion[a].value)]
    /\ UNCHANGED <<declVars, exprVars, exprs, toolVars>>

\* two output versions are compared
CallVersionEquals(a, b) ==
    /\ call' = [op |-> "VersionEquals", a |-> a, b |-> b,
                result |-> (OutputShaderVersion[a].value = OutputShaderVersion[b].value)]
    /\ UNCHANGED <<declVars, exprVars, exprs, toolVars>>

InitVersion ==
    /\ structs = <<>>
    /\ functions = <<>>
    /\ declStmnt = NoStmnt
    /\ NoExprs
    /\ NoTool
    /\ call = NoCall

NextVersion ==
    \/ \E a \in Enumerators : CallIsLanguage(a)
    \/ \E a \in Enumerators, b \in Enumerators : CallVersionEquals(a, b)

SpecVersion == InitVersion /\ [][NextVersion]_vars

\* the family an enumerator is named after, and the version number in its
\* name (none for the auto-detection enumerators)
FamilyName(e) == SubSeq(OutputShaderVersion[e].name, 1, 4)
VersionDigits(e) ==
    SubSeq(OutputShaderVersion[e].name, 5, Len(OutputShaderVersion[e].name))

\* the numeric versions of each family
FamilyVersions(family) ==
    CASE family = <<"G", "L", "S", "L">> -> 110..450
      [] family = <<"E", "S", "S", "L">> -> 100..320
      [] family = <<"V", "K", "S", "L">> -> {450}

\* C18: every OutputShaderVersion enumerator is a 32-bit value whose upper
\* 16 bits are the tag of its family (0 GLSL, 1 ESSL, 2 VKSL) and whose lower
\* 16 bits are the version number of its name, within the family's range and
\* never 0xFFFF, or 0xFFFF for the auto-detection enumerator; no two
\* enumerators have the same value.
VersionEncoding ==
    /\ \A e \in Enumerators :
          LET value == OutputShaderVersion[e].value
              tag   == value \div 2^16
              low   == value % 2^16
          IN  /\ value >= 0
              /\ tag \in 0..(2^16 - 1)
              /\ tag = (CASE FamilyName(e) = <<"G", "L", "S", "L">> -> 0
                          [] FamilyName(e) = <<"E", "S", "S", "L">> -> 1
                          [] FamilyName(e) = <<"V", "K", "S", "L">> -> 2)
              /\ LanguageOf(value) = FamilyName(e)
              /\ IF VersionDigits(e) = <<>>
                 THEN low = 2^16 - 1
                 ELSE /\ low = ParseDigits(VersionDigits(e), 0)
                      /\ low \in FamilyVersions(FamilyName(e))
                      /\ low # 2^16 - 1
    /\ \A a \in Enumerators, b \in Enumerators :
          a # b => OutputShaderVersion[a].value # OutputShaderVersion[b].value
    /\ call.op = "VersionEquals" => (call.result <=> call.a = call.b)
    /\ call.op = "IsLanguage" => call.result = FamilyName(call.a)

\* the auto-detection enumerators of GLSL and ESSL were compared and differ
VersionEncodingWitness ==
    /\ call.op = "VersionEquals"
    /\ OutputShaderVersion[call.a].name = <<"G", "L", "S", "L">>
    /\ OutputShaderVersion[call.b].name = <<"E", "S", "S", "L">>
    /\ OutputShaderVersion[call.a].value % 2^16 = OutputShaderVersion[call.b].value % 2^16
    /\ call.result = FALSE


(* ----- the command-line tool (tool/main.cpp, the g_config driver) ----- *)
(* Arguments and option values are strings, kept as sequences of           *)
(* characters; "" is <<>>.                                                 *)

\* most arguments of a command line
MaxArgs == 4

\* "help", "--help", "-h"
HelpArgs == {<<"h", "e", "l", "p">>,
             <<"-", "-", "h", "e", "l", "p">>,
             <<"-", "h">>}
\* "--version", "-v"
VersionArgs == {<<"-", "-", "v", "e", "r", "s", "i", "o", "n">>,
                <<"-", "v">>}
\* "--pause"
PauseArg == <<"-", "-", "p", "a", "u", "s", "e">>

\* the flags read with BoolArg, and the option each one sets
BoolFlags ==
    <<[flag |-> <<"-", "w", "a", "r", "n">>, option |-> "warnings"],
      [flag |-> <<"-", "b", "l", "a", "n", "k", "s">>, option |-> "blanks"],
      [flag |-> <<"-", "l", "i", "n", "e", "-", "m", "a", "r", "k", "s">>,
       option |-> "lineMarks"],
      [flag |-> <<"-", "d", "u", "m", "p", "-", "a", "s", "t">>, option |-> "dumpAST"],
      [flag |-> <<"-", "p", "p", "o", "n", "l", "y">>, option |-> "preprocessOnly"],
      [flag |-> <<"-", "c", "o", "m", "m", "e", "n", "t", "s">>,
       option |-> "keepComments"]>>

\* the flags read with NextArg, and the Config member each one sets
ValueFlags ==
    <<[flag |-> <<"-", "e", "n", "t", "r", "y">>, member |-> "entry"],
      [flag |-> <<"-", "t", "a", "r", "g", "e", "t">>, member |-> "target"],
      [flag |-> <<"-", "s", "h", "a", "d", "e", "r", "i", "n">>, member |-> "shaderIn"],
      [flag |-> <<"-", "s", "h", "a", "d", "e", "r", "o", "u", "t">>,
       member |-> "shaderOut"],
      [flag |-> <<"-", "i", "n", "d", "e", "n", "t">>, member |-> "indent"],
      [flag |-> <<"-", "p", "r", "e", "f", "i", "x">>, member |-> "prefix"],
      [flag |-> <<"-", "o", "u", "t", "p", "u", "t">>, member |-> "output"]>>


\* the strings TargetFromString, InputVersionFromString and
\* OutputVersionFromString accept
ShaderTargetNames ==
    {<<"v", "e", "r", "t", "e", "x">>,
     <<"f", "r", "a", "g", "m", "e", "n", "t">>,
     <<"g", "e", "o", "m", "e", "t", "r", "y">>,
     <<"t", "e", "s", "s", "-", "c", "o", "n", "t", "r", "o", "l">>,
     <<"t", "e", "s", "s", "-", "e", "v", "a", "l", "u", "a", "t", "i", "o", "n">>,
     <<"c", "o", "m", "p", "u", "t", "e">>}
InputVersionNames == {<<"H", "L", "S", "L", "3">>,
                      <<"H", "L", "S", "L", "4">>,
                      <<"H", "L", "S", "L", "5">>}
OutputVersionNames ==
    {<<"G", "L", "S", "L", "1", "1", "0">>,
     <<"G", "L", "S", "L", "1", "2", "0">>,
     <<"G", "L", "S", "L", "1", "3", "0">>,
     <<"G", "L", "S", "L", "1", "4", "0">>,
     <<"G", "L", "S", "L", "1", "5", "0">>,
     <<"G", "L", "S", "L", "3", "3", "0">>,
     <<"G", "L", "S", "L", "4", "0", "0">>,
     <<"G", "L", "S", "L", "4", "1", "0">>,
     <<"G", "L", "S", "L", "4", "2", "0">>,
     <<"G", "L", "S", "L", "4", "3", "0">>,
     <<"G", "L", "S", "L", "4", "4", "0">>,
     <<"G", "L", "S", "L", "4", "5", "0">>}

\* static Config g_config, with the defaults of Options the help text names
ConfigInit ==
    [entry     |-> <<>>,
     target    |-> <<>>,
     shaderIn  |-> <<"H", "L", "S", "L", "5">>,
     shaderOut |-> <<"G", "L", "S", "L", "3", "3", "0">>,
     output    |-> <<>>,
     predefinedMacros |-> <<>>,
     options   |-> [indent |-> <<" ", " ", " ", " ">>, prefix |-> <<"_">>,
                    warnings |-> FALSE, blanks |-> TRUE, lineMarks |-> FALSE,
                    dumpAST |-> FALSE, preprocessOnly |-> FALSE,
                    keepComments |-> TRUE]]

\* the locals of main; iterations lists the values of i the loop body ran with
MainLocalsInit ==
    [translationCounter |-> 0, showHelp |-> FALSE, showVersion |-> FALSE,
     pauseApp |-> FALSE, iterations |-> <<>>]

RECURSIVE LastIndexOf(_, _)
\* 1-based position of the last c in s, 0 when there is none
LastIndexOf(s, c) ==
    IF s = <<>> THEN 0
    ELSE IF s[Len(s)] = c THEN Len(s)
    ELSE LastIndexOf(SubSeq(s, 1, Len(s) - 1), c)

ExtractFilename(filename) ==
    LET pos == LastIndexOf(filename, ".")
    IN  IF pos = 0 THEN filename ELSE SubSeq(filename, 1, pos - 1)

\* NextArg(i, argc, argv, flag): the argument and the new i, or the throw
NextArg(i, args) ==
    IF i + 1 > Len(args)
    THEN [thrown |-> TRUE, what |-> "missing next argument after flag",
          arg |-> <<>>, i |-> i]
    ELSE [thrown |-> FALSE, what |-> "", arg |-> args[i + 1], i |-> i + 1]

\* BoolArg taking the next argument whatever it is
BoolArgAlwaysConsumes(i, args) ==
    IF i + 1 <= Len(args)
    THEN [value |-> args[i + 1] # <<"o", "f", "f">>, i |-> i + 1]
    ELSE [value |-> TRUE, i |-> i]

\* BoolArg(i, argc, argv, flag): the value and the new i
BoolArg(i, args) ==
    IF i + 1 <= Len(args)
    THEN IF args[i + 1] = <<"o", "n">> THEN [value |-> TRUE, i |-> i + 1]
         ELSE IF args[i + 1] = <<"o", "f", "f">> THEN [value |-> FALSE, i |-> i + 1]
         ELSE [value |-> TRUE, i |-> i]
    ELSE [value |-> TRUE, i |-> i]

PredefinedMacroArg(arg) ==
    LET pos == IndexOf(arg, "=")
    IN  IF pos # 0 /\ pos < Len(arg)
        THEN [ident |-> SubSeq(arg, 3, pos - 1), value |-> SubSeq(arg, pos + 1, Len(arg))]
        ELSE [ident |-> SubSeq(arg, 3, Len(arg)), value |-> <<>>]

\* the lines Translate writes to the input stream ahead of the file
DefineLines(predefinedMacros) ==
    [m \in DOMAIN predefinedMacros |->
        <<"#", "d", "e", "f", "i", "n", "e", " ">> \o predefinedMacros[m].ident
        \o (IF predefinedMacros[m].value # <<>>
            THEN <<" ">> \o predefinedMacros[m].value ELSE <<>>)]

\* what the file system and the translator do in one Translate call
TranslateEnvs ==
    {[inputGood |-> TRUE,  outputGood |-> TRUE,  result |-> TRUE],
     [inputGood |-> TRUE,  outputGood |-> TRUE,  result |-> FALSE],
     [inputGood |-> FALSE, outputGood |-> TRUE,  result |-> FALSE],
     [inputGood |-> TRUE,  outputGood |-> FALSE, result |-> FALSE]}

\* Translate(filename) with g_config = cfg: the config afterwards, the call
\* as the translator saw it, and what was printed
Translate(cfg, filename, env) ==
    LET output1 == IF cfg.output = <<>>
                   THEN ExtractFilename(filename)
                        \o (IF cfg.target # <<>> THEN <<".">> \o cfg.target ELSE <<>>)
                        \o <<".", "g", "l", "s", "l">>
                   ELSE cfg.output
        ignore  == cfg.entry = <<>> \/ cfg.target = <<>>
        cfg1    == [cfg EXCEPT !.output = output1,
                               !.options.prefix = IF @ = <<"<", "n", "o", "n", "e", ">">> THEN <<>> ELSE @,
                               !.entry  = IF ignore THEN <<>> ELSE @,
                               !.target = IF ignore THEN <<>> ELSE @]
        what    == IF ~env.inputGood THEN "failed to read file"
                   ELSE IF ~env.outputGood THEN "failed to read file"
                   ELSE IF cfg1.shaderIn \notin InputVersionNames
                   THEN "invalid input shader version"
                   ELSE IF cfg1.target # <<>> /\ cfg1.target \notin ShaderTargetNames
                   THEN "invalid shader target"
                   ELSE IF cfg1.shaderOut \notin OutputVersionNames
                   THEN "invalid output shader version"
                   ELSE ""
    IN  [g_config |-> cfg1,
         translation |->
            [filename   |-> filename,
             config     |-> [entry |-> cfg.entry, target |-> cfg.target,
                             output |-> cfg.output],
             sourceCode |-> DefineLines(cfg1.predefinedMacros),
             entryPoint |-> cfg1.entry,
             shaderTarget |-> cfg1.target,
             output     |-> output1,
             what       |-> what,
             result     |-> (what = "" /\ env.result)],
         cout |-> IF what # "" THEN <<>>
                  ELSE IF env.result THEN <<"translate from", "translation successful">>
                  ELSE <<"translate from">>,
         cerr |-> IF what # "" THEN <<what>> ELSE <<>>]

\* the reset after a translation that also empties the macro list
ResetAlsoMacros(cfg) ==
    [cfg EXCEPT !.output = <<>>, !.target = <<>>, !.entry = <<>>,
                !.predefinedMacros = <<>>]

\* the reset after a translation that leaves the output as it is
ResetEntryAndTarget(cfg) ==
    [cfg EXCEPT !.target = <<>>, !.entry = <<>>]

\* 'Reset translation options'
ResetTranslationOptions(cfg) ==
    [cfg EXCEPT !.output = <<>>, !.target = <<>>, !.entry = <<>>]

\* the catch of main's loop returning EXIT_FAILURE
CatchReturnsFailure(what) == [cerr |-> <<what>>, exitCode |-> 1]

\* the catch of main's loop: prints what() and returns
MainCatch(what) == [cerr |-> <<what>>, exitCode |-> 0]

\* is arg a flag with the given role
IsBoolFlag(arg)  == \E f \in DOMAIN BoolFlags : BoolFlags[f].flag = arg
IsValueFlag(arg) == \E f \in DOMAIN ValueFlags : ValueFlags[f].flag = arg
IsMacroArg(arg)  == Len(arg) > 3 /\ SubSeq(arg, 1, 2) = <<"-", "D">>

\* one pass of the body of main's for loop, with i = argPos
MainLoop ==
    /\ exitCode = -1
    /\ argPos >= 1
    /\ argPos <= Len(argv)
    /\ LET arg    == argv[argPos]
           locals == [mainLocals EXCEPT !.iterations = Append(@, argPos)]
       IN  CASE arg \in HelpArgs ->
                  /\ mainLocals' = [locals EXCEPT !.showHelp = TRUE]
                  /\ argPos' = argPos + 1
                  /\ UNCHANGED <<g_config, translations, cout, cerr, exitCode>>
             [] arg \in VersionArgs ->
                  /\ mainLocals' = [locals EXCEPT !.showVersion = TRUE]
                  /\ argPos' = argPos + 1
                  /\ UNCHANGED <<g_config, translations, cout, cerr, exitCode>>
             [] arg = PauseArg ->
                  /\ mainLocals' = [locals EXCEPT !.pauseApp = TRUE]
                  /\ argPos' = argPos + 1
                  /\ UNCHANGED <<g_config, translations, cout, cerr, exitCode>>
             [] IsBoolFlag(arg) ->
                  LET f == CHOOSE f \in DOMAIN BoolFlags : BoolFlags[f].flag = arg
                      b == BoolArg(argPos, argv)
                  IN  /\ g_config' = [g_config EXCEPT
                                         !.options[BoolFlags[f].option] = b.value]
                      /\ mainLocals' = locals
                      /\ argPos' = b.i + 1
                      /\ UNCHANGED <<translations, cout, cerr, exitCode>>
             [] IsValueFlag(arg) ->
                  LET f == CHOOSE f \in DOMAIN ValueFlags : ValueFlags[f].flag = arg
                      n == NextArg(argPos, argv)
                      member == ValueFlags[f].member
                  IN  IF n.thrown
                      THEN /\ cerr' = cerr \o MainCatch(n.what).cerr
                           /\ exitCode' = MainCatch(n.what).exitCode
                           /\ mainLocals' = locals
                           /\ UNCHANGED <<g_config, argPos, translations, cout>>
                      ELSE /\ g_config' =
                                IF member \in {"indent", "prefix"}
                                THEN [g_config EXCEPT !.options[member] = n.arg]
                                ELSE [g_config EXCEPT ![member] = n.arg]
                           /\ mainLocals' = locals
                           /\ argPos' = n.i + 1
                           /\ UNCHANGED <<translations, cout, cerr, exitCode>>
             [] IsMacroArg(arg) ->
                  /\ g_config' = [g_config EXCEPT
                                     !.predefinedMacros = Append(@, PredefinedMacroArg(arg))]
                  /\ mainLocals' = locals
                  /\ argPos' = argPos + 1
                  /\ UNCHANGED <<translations, cout, cerr, exitCode>>
             [] OTHER ->
                  \E env \in TranslateEnvs :
                     LET t == Translate(g_config, arg, env)
                     IN  /\ g_config' = ResetTranslationOptions(t.g_config)
                         /\ translations' =
                               Append(translations, [argPos |-> argPos] @@ t.translation)
                         /\ cout' = cout \o t.cout
                         /\ cerr' = cerr \o t.cerr
                         /\ mainLocals' = [locals EXCEPT !.translationCounter = @ + 1]
                         /\ argPos' = argPos + 1
                         /\ UNCHANGED exitCode
    /\ call' = [op |-> "main"]
    /\ UNCHANGED <<declVars, exprVars, exprs, argv>>

\* main after the loop, printing the hint whenever no file was translated
MainReturnHintsAfterHelp ==
    /\ exitCode = -1
    /\ argPos = Len(argv) + 1
    /\ cout' = cout
                \o (IF mainLocals.showHelp THEN <<"help">> ELSE <<>>)
                \o (IF mainLocals.showVersion THEN <<"version">> ELSE <<>>)
                \o (IF mainLocals.translationCounter = 0 THEN <<"hint">> ELSE <<>>)
    /\ exitCode' = 0
    /\ call' = [op |-> "main"]
    /\ UNCHANGED <<declVars, exprVars, exprs, argv, argPos, g_config, mainLocals,
                   translations, cerr>>

\* main after the loop: 'Evaluate arguments' and return 0
MainReturn ==
    /\ exitCode = -1
    /\ argPos = Len(argv) + 1
    /\ cout' = cout
                \o (IF mainLocals.showHelp THEN <<"help">> ELSE <<>>)
                \o (IF mainLocals.showVersion THEN <<"version">> ELSE <<>>)
                \o (IF /\ mainLocals.translationCounter = 0
                       /\ ~mainLocals.showHelp
                       /\ ~mainLocals.showVersion
                    THEN <<"hint">> ELSE <<>>)
    /\ exitCode' = 0
    /\ call' = [op |-> "main"]
    /\ UNCHANGED <<declVars, exprVars, exprs, argv, argPos, g_config, mainLocals,
                   translations, cerr>>

\* the tool started with the command line args
ToolStarted(args) ==
    /\ structs = <<>>
    /\ functions = <<>>
    /\ declStmnt = NoStmnt
    /\ NoExprs
    /\ argv = args
    /\ argPos = 1
    /\ g_config = ConfigInit
    /\ mainLocals = MainLocalsInit
    /\ translations = <<>>
    /\ cout = <<>>
    /\ cerr = <<>>
    /\ exitCode = -1
    /\ call = NoCall

\* command lines of flags with their values, help and version, and files
ToolArgs ==
    {<<"-", "e", "n", "t", "r", "y">>,
     <<"-", "t", "a", "r", "g", "e", "t">>,
     <<"-", "o", "u", "t", "p", "u", "t">>,
     <<"v", "e", "r", "t", "e", "x">>,
     <<"a", ".", "h", "l", "s", "l">>,
     <<"-", "-", "h", "e", "l", "p">>,
     <<"-", "v">>}

InitTool == \E n \in 0..MaxArgs : \E args \in [1..n -> ToolArgs] : ToolStarted(args)

NextTool ==
    \/ MainLoop
    \/ MainReturn

SpecTool == InitTool /\ [][NextTool]_vars

\* command lines of predefined macros and files
MacroArgs ==
    {<<"-", "D", "A">>,
     <<"-", "D", "A", "B">>,
     <<"-", "D", "A", "=", "1">>,
     <<"-", "D", "A", "B", "=", "1", "2">>,
     <<"a", ".", "h", "l", "s", "l">>}

InitMacros == \E n \in 0..MaxArgs : \E args \in [1..n -> MacroArgs] : ToolStarted(args)

SpecMacros == InitMacros /\ [][NextTool]_vars

(* ----- claims about the command-line tool ----- *)

\* what the driver takes as a flag: every other argument its loop meets is
\* an input file
RecognisedFlag(arg) ==
    \/ arg \in HelpArgs \cup VersionArgs \cup {PauseArg}
    \/ IsBoolFlag(arg)
    \/ IsValueFlag(arg)
    \/ IsMacroArg(arg)

FlagOf(member) ==
    ValueFlags[CHOOSE f \in DOMAIN ValueFlags : ValueFlags[f].member = member].flag

\* the value given by the last flag met by the loop strictly between the
\* positions lo and hi, "" when the flag was not given there
LastFlagValue(flag, lo, hi) ==
    LET given == {q \in 1..Len(argv) :
                    /\ \E n \in DOMAIN mainLocals.iterations :
                          mainLocals.iterations[n] = q
                    /\ lo < q
                    /\ q < hi
                    /\ argv[q] = flag}
    IN  IF given = {} THEN <<>>
        ELSE argv[(CHOOSE q \in given : \A r \in given : r <= q) + 1]

PrevFile(k) == IF k = 1 THEN 0 ELSE translations[k - 1].argPos

MainExitsZero ==
    /\ exitCode \in {-1, 0}
    /\ (exitCode # -1 /\ argPos <= Len(argv))
       => /\ cerr # <<>>
          /\ cerr[Len(cerr)] = "missing next argument after flag"
          /\ IsValueFlag(argv[Len(argv)])

\* main has returned on a flag that misses its value, after a translation
\* that failed
MainExitsZeroWitness ==
    /\ exitCode = 0
    /\ argPos <= Len(argv)
    /\ \E k \in DOMAIN translations : translations[k].what # ""

\* -D<IDENT> or -D<IDENT>=VALUE with a non-empty IDENT
MacroForm(arg) ==
    /\ Len(arg) > 2
    /\ SubSeq(arg, 1, 2) = <<"-", "D">>
    /\ arg[3] # "="

MacroOfForm(arg) ==
    LET rest == SubSeq(arg, 3, Len(arg))
        eq   == IndexOf(rest, "=")
    IN  IF eq = 0 THEN [ident |-> rest, value |-> <<>>]
        ELSE [ident |-> SubSeq(rest, 1, eq - 1),
              value |-> SubSeq(rest, eq + 1, Len(rest))]

\* the macros of the arguments of that form the loop met before position hi
MacrosBefore(hi) ==
    LET at == SelectSeq(mainLocals.iterations,
                        LAMBDA q : q < hi /\ MacroForm(argv[q]))
    IN  [m \in DOMAIN at |-> MacroOfForm(argv[at[m]])]

\* C17: every argument -D<IDENT> or -D<IDENT>=VALUE with a non-empty
\* identifier that the loop has met added one macro (IDENT, VALUE) to the
\* macro list, none of them was translated as an input file, and every file
\* was translated with one '#define' line for each macro given before it,
\* ahead of its source.
EveryMacroArgDefines ==
    /\ g_config.predefinedMacros = MacrosBefore(Len(argv) + 1)
    /\ \A k \in DOMAIN translations :
          /\ ~MacroForm(translations[k].filename)
          /\ translations[k].sourceCode
               = DefineLines(MacrosBefore(translations[k].argPos))

(* ----- boolean flags ----- *)

\* command lines of one of the six boolean flags, "on", "off" and files
FlagArgs(f) ==
    {BoolFlags[f].flag, <<"o", "n">>, <<"o", "f", "f">>,
     <<"a", ".", "h", "l", "s", "l">>}

InitFlags ==
    \E n \in 0..MaxArgs : \E f \in DOMAIN BoolFlags :
       \E args \in [1..n -> FlagArgs(f)] : ToolStarted(args)

SpecFlags == InitFlags /\ [][NextTool]_vars

\* the positions of the loop passes that met the boolean flag f
PassesOf(f) ==
    {q \in 1..Len(argv) :
        /\ \E n \in DOMAIN mainLocals.iterations : mainLocals.iterations[n] = q
        /\ argv[q] = BoolFlags[f].flag}

\* where the loop went on after its pass at position q
PassAfter(q) ==
    LET n == CHOOSE n \in DOMAIN mainLocals.iterations : mainLocals.iterations[n] = q
    IN  IF n < Len(mainLocals.iterations) THEN mainLocals.iterations[n + 1] ELSE argPos

\* is the argument after position q the word w
FollowedBy(q, w) == q + 1 <= Len(argv) /\ argv[q + 1] = w

\* C24: each of the six boolean flags the loop has met took the argument
\* after it exactly when that argument is "on" or "off", and otherwise the
\* loop went on with the very next argument; the flag's option is false
\* when the last such flag was followed by "off", true when it was followed
\* by "on", by anything else or by nothing, and has its default when the
\* flag was not given.
BoolFlagTakesOnOff ==
    \A f \in DOMAIN BoolFlags :
       /\ \A q \in PassesOf(f) :
             PassAfter(q) = IF FollowedBy(q, <<"o", "n">>) \/ FollowedBy(q, <<"o", "f", "f">>)
                            THEN q + 2 ELSE q + 1
       /\ g_config.options[BoolFlags[f].option] =
             IF PassesOf(f) = {} THEN ConfigInit.options[BoolFlags[f].option]
             ELSE ~FollowedBy(CHOOSE q \in PassesOf(f) : \A r \in PassesOf(f) : r <= q,
                              <<"o", "f", "f">>)

\* a boolean flag was switched off, and the argument after a boolean flag
\* was translated as an input file
BoolFlagWitness ==
    /\ exitCode = 0
    /\ \E f \in DOMAIN BoolFlags :
          /\ PassesOf(f) # {}
          /\ ~g_config.options[BoolFlags[f].option]
    /\ \E f \in DOMAIN BoolFlags : \E q \in PassesOf(f) :
          \E k \in DOMAIN translations : translations[k].argPos = q + 1

(* ----- options that outlive a translation ----- *)

\* command lines of -shaderin and -prefix with their values, predefined
\* macros, help and version, and files
OptionArgs ==
    {<<"-", "s", "h", "a", "d", "e", "r", "i", "n">>,
     <<"-", "p", "r", "e", "f", "i", "x">>,
     <<"<", "n", "o", "n", "e", ">">>,
     <<"-", "D", "A", "B">>,
     <<"a", ".", "h", "l", "s", "l">>,
     <<"-", "-", "h", "e", "l", "p">>,
     <<"-", "v">>}

InitOptions == \E n \in 0..MaxArgs : \E args \in [1..n -> OptionArgs] : ToolStarted(args)

SpecOptions == InitOptions /\ [][NextTool]_vars

\* this step translates a file
TranslatesFile == translations' # translations

\* the step leaves the macro list, or adds to its end
MacrosOnlyGrow ==
    /\ Len(g_config'.predefinedMacros) >= Len(g_config.predefinedMacros)
    /\ SubSeq(g_config'.predefinedMacros, 1, Len(g_config.predefinedMacros))
         = g_config.predefinedMacros

\* C27 as stated: a step that translates a file leaves entry, target and
\* output empty and leaves shaderIn, shaderOut, every option and the macro
\* list as they were; no step shrinks the macro list.
TranslationKeepsOptions ==
    [][ /\ MacrosOnlyGrow
        /\ TranslatesFile =>
              /\ g_config'.entry = <<>>
              /\ g_config'.target = <<>>
              /\ g_config'.output = <<>>
              /\ g_config'.shaderIn = g_config.shaderIn
              /\ g_config'.shaderOut = g_config.shaderOut
              /\ g_config'.predefinedMacros = g_config.predefinedMacros
              /\ g_config'.options = g_config.options ]_vars

\* C27: a step that translates a file leaves entry, target and output
\* empty and leaves shaderIn, shaderOut, the macro list and every option
\* as they were, except that a prefix of "<none>" becomes the empty prefix;
\* no step shrinks the macro list.
TranslationKeepsOptionsButNone ==
    [][ /\ MacrosOnlyGrow
        /\ TranslatesFile =>
              /\ g_config'.entry = <<>>
              /\ g_config'.target = <<>>
              /\ g_config'.output = <<>>
              /\ g_config'.shaderIn = g_config.shaderIn
              /\ g_config'.shaderOut = g_config.shaderOut
              /\ g_config'.predefinedMacros = g_config.predefinedMacros
              /\ g_config'.options =
                    [g_config.options EXCEPT
                       !.prefix = IF @ = <<"<", "n", "o", "n", "e", ">">>
                                  THEN <<>> ELSE @] ]_vars

\* a file was translated after a macro was given and the prefix was
\* switched off with "<none>"
TranslationKeepsOptionsWitness ==
    /\ translations # <<>>
    /\ g_config.predefinedMacros # <<>>
    /\ g_config.options.prefix = <<>>
    /\ translations[Len(translations)].sourceCode # <<>>

\* the loop met an argument of the set A
Requested(A) ==
    \E n \in DOMAIN mainLocals.iterations : argv[mainLocals.iterations[n]] \in A

\* main returned from the catch of its loop
Aborted == exitCode # -1 /\ argPos <= Len(argv)

\* C28: every translation counts, failed or not, and never ends the run:
\* main returns early only from a pass that met a value-taking flag as the
\* last argument, and then nothing of the help, the version or the hint is
\* printed; help and version are printed only once main has passed the whole
\* command line, exactly when they were requested, and the hint exactly
\* when moreover no file was translated and neither help nor version was
\* requested.
FailuresStayInTranslation ==
    LET printed(text) == \E n \in DOMAIN cout : cout[n] = text
        done == exitCode # -1 /\ argPos = Len(argv) + 1
    IN  /\ mainLocals.translationCounter = Len(translations)
        /\ Aborted =>
              /\ IsValueFlag(argv[Len(argv)])
              /\ mainLocals.iterations[Len(mainLocals.iterations)] = Len(argv)
              /\ ~printed("help") /\ ~printed("version") /\ ~printed("hint")
        /\ printed("help") <=> (done /\ Requested(HelpArgs))
        /\ printed("version") <=> (done /\ Requested(VersionArgs))
        /\ printed("hint") <=>
              /\ done
              /\ translations = <<>>
              /\ ~Requested(HelpArgs)
              /\ ~Requested(VersionArgs)

\* a translation failed on an invalid -shaderin value, the rest of the
\* command line was processed, and the help was printed at the end
FailuresStayWitness ==
    /\ exitCode = 0
    /\ \E k \in DOMAIN translations :
          /\ translations[k].what = "invalid input shader version"
          /\ translations[k].argPos < Len(argv)
    /\ cout # <<>>
    /\ cout[Len(cout)] = "help"

(* ----- FunctionDecl::MatchParameterWithTypeDenoter ----- *)

\* type denoters of an argument
ArgTypeDenoters ==
    ParamTypeDenoters \cup {[kind |-> "Base", dataType |-> "Bool"],
                            [kind |-> "Base", dataType |-> "Float2"]}

\* MatchParameterWithTypeDenoter that never looks at castability
MatchWithoutCast(f, paramIndex, argType, implicitConversion) ==
    IF paramIndex >= Len(f.parameters) THEN FALSE
    ELSE TypeDenoterEquals(argType, f.parameters[paramIndex + 1].varType.typeDenoter)

\* paramIndex counts from 0, as in the source
MatchParameterWithTypeDenoter(f, paramIndex, argType, implicitConversion) ==
    IF paramIndex >= Len(f.parameters) THEN FALSE
    ELSE LET paramTypeDen == f.parameters[paramIndex + 1].varType.typeDenoter
         IN  IF ~TypeDenoterEquals(argType, paramTypeDen)
             THEN IF implicitConversion
                  THEN IF ~IsCastableTo(argType, paramTypeDen) THEN FALSE ELSE TRUE
                  ELSE FALSE
             ELSE TRUE

CallMatchParameter(f, paramIndex, argType, implicitConversion) ==
    /\ call' = [op |-> "MatchParameterWithTypeDenoter", f |-> f,
                paramIndex |-> paramIndex, argType |-> argType,
                implicitConversion |-> implicitConversion,
                result |-> MatchParameterWithTypeDenoter(
                               functions[f], paramIndex, argType, implicitConversion)]
    /\ UNCHANGED <<structs, functions, declStmnt, exprVars, exprs, toolVars>>

\* one function and the arguments matched against its parameters, with
\* indices up to one past the longest parameter list
NextMatch ==
    \/ DeclFunction(1)
    \/ \E t \in ParamTypeDenoters :
          DeclParam(t, <<[initializer |-> NULL]>>, MaxParams, MaxParams)
    \/ \E f \in 1..Len(functions), i \in 0..MaxParams, t \in ArgTypeDenoters,
          implicit \in BOOLEAN : CallMatchParameter(f, i, t, implicit)

SpecMatch == InitFunc /\ [][NextMatch]_vars

\* C23: MatchParameterWithTypeDenoter(i, argType, implicit) returned true
\* exactly when i is below the number of parameters and argType equals the
\* type of parameter i or, with implicit set, is castable to it; so for no
\* function, index and argument type does it match without implicit
\* conversion and fail with it, and an index at or past the number of
\* parameters matches in neither mode.
MatchParameterIff ==
    /\ call.op = "MatchParameterWithTypeDenoter" =>
          LET f == functions[call.f]
              i == call.paramIndex
          IN  call.result <=>
                 /\ i < Len(f.parameters)
                 /\ \/ TypeDenoterEquals(call.argType,
                                         f.parameters[i + 1].varType.typeDenoter)
                    \/ /\ call.implicitConversion
                       /\ IsCastableTo(call.argType,
                                       f.parameters[i + 1].varType.typeDenoter)
    /\ \A f \in DOMAIN functions, i \in 0..MaxParams, t \in ArgTypeDenoters :
          /\ MatchParameterWithTypeDenoter(functions[f], i, t, FALSE)
               => MatchParameterWithTypeDenoter(functions[f], i, t, TRUE)
          /\ i >= Len(functions[f].parameters)
               => /\ ~MatchParameterWithTypeDenoter(functions[f], i, t, FALSE)
                  /\ ~MatchParameterWithTypeDenoter(functions[f], i, t, TRUE)

\* an argument that does not equal the type of the last parameter matched
\* it by implicit conversion
MatchParameterWitness ==
    /\ call.op = "MatchParameterWithTypeDenoter"
    /\ call.implicitConversion
    /\ call.result
    /\ call.paramIndex + 1 = Len(functions[call.f].parameters)
    /\ ~TypeDenoterEquals(
           call.argType,
           functions[call.f].parameters[call.paramIndex + 1].varType.typeDenoter)

(* ----- VarIdent::PopFront ----- *)

\* C26: PopFront() on a VarIdent without next segment changes nothing; on
\* one with a next segment it gives the node the ident, arrayIndices, next
\* and symbolRef of that segment, so the chain from the node is the former
\* chain without its first segment and ToString() is the former ToString()
\* without its first identifier and the '.' after it; the node's buffered
\* type denoter is the same before and after.
PopFrontShiftsHead ==
    [][\A k \in 1..MaxExprChain :
          PopFront(k) =>
             /\ bufferedTypeDenoter'[VarIdentNode(k)]
                  = bufferedTypeDenoter[VarIdentNode(k)]
             /\ IF varIdents[k].next = 0
                THEN /\ varIdents' = varIdents
                     /\ bufferedTypeDenoter' = bufferedTypeDenoter
                ELSE LET succ == varIdents[varIdents[k].next]
                         was  == VarIdentToString(varIdents, k)
                     IN  /\ varIdents'[k].ident = succ.ident
                         /\ varIdents'[k].arrayIndices = succ.arrayIndices
                         /\ varIdents'[k].next = succ.next
                         /\ varIdents'[k].symbolRef = succ.symbolRef
                         /\ Len(ChainFrom(varIdents', k))
                              = Len(ChainFrom(varIdents, k)) - 1
                         /\ ChainStructure(varIdents', k)
                              = Tail(ChainStructure(varIdents, k))
                         /\ VarIdentToString(varIdents', k)
                              = SubSeq(was, Len(varIdents[k].ident) + 2, Len(was))
      ]_vars

\* PopFront() was called on the head of a two-segment chain whose type
\* denoter was buffered: the head is now the former second segment and
\* still has that denoter
PopFrontWitness ==
    /\ call.op = "PopFront"
    /\ varIdents[1].ident = <<"b">>
    /\ VarIdentToString(varIdents, 1) = <<"b">>
    /\ Len(varIdents) >= 2
    /\ varIdents[2] = Released
    /\ bufferedTypeDenoter[VarIdentNode(1)] # NoDen

(* ----- a derivation that fails ----- *)

\* C25: a GetTypeDenoter() call that ends in an error found the node
\* without buffered denoter and leaves it so; the denoters other nodes had
\* buffered before the call are the same afterwards, and those buffered
\* during the call stay; the next GetTypeDenoter() on the node derives
\* again, and ends in the same error without touching any buffer.
FailedDerivationBuffersNothing ==
    [][\A n \in LiveNodes :
          (CallGetTypeDenoter(n) /\ ~call'.ok) =>
             /\ bufferedTypeDenoter[n] = NoDen
             /\ bufferedTypeDenoter'[n] = NoDen
             /\ call'.den = NoDen
             /\ \A m \in DOMAIN bufferedTypeDenoter :
                   bufferedTypeDenoter[m] # NoDen
                      => bufferedTypeDenoter'[m] = bufferedTypeDenoter[m]
             /\ LET again == TypedASTGetTypeDenoter(bufferedTypeDenoter', n)
                IN  /\ again = DeriveTypeDenoter(bufferedTypeDenoter', n)
                    /\ ~again.ok
                    /\ again.at = call'.at
                    /\ again.B = bufferedTypeDenoter'
      ]_vars

\* GetTypeDenoter() on the root ended in an error: the root has no buffered
\* denoter, and its first two operands have the ones derived on the way
FailedDerivationWitness ==
    /\ Root >= 3
    /\ CalledOn(Root)
    /\ ~call.ok
    /\ bufferedTypeDenoter[ExprNode(Root)] = NoDen
    /\ bufferedTypeDenoter[ExprNode(1)] # NoDen
    /\ bufferedTypeDenoter[ExprNode(2)] # NoDen

(* ----- unary expressions and function calls ----- *)

\* most arguments of a function call
MaxCallArgs == 2

\* operands and arguments: the operands of the other trees, and  { }
Operands == Leaves \cup {[type |-> "InitializerExpr", exprs |-> <<>>]}

\*  op e
UnaryTrees ==
    {<<e, [type |-> "UnaryExpr", op |-> op, expr |-> 1]>> :
        e \in Operands, op \in UnaryOps}

\*  e op
PostUnaryTrees ==
    {<<e, [type |-> "PostUnaryExpr", op |-> op, expr |-> 1]>> :
        e \in Operands, op \in UnaryOps}

\* what a FunctionCall can carry: the function declaration it is bound to,
\* the denoter of a type constructor, an intrinsic
CallHeads ==
    [funcDeclRef : {0, 1},
     typeDenoter : {NoDen, Instance(CallTypeId, [kind |-> "Base", dataType |-> "Float2"])},
     intrinsic   : Intrinsics]

\*  f(e1, ..., em)
CallTrees ==
    {args \o <<[type |-> "FunctionCallExpr",
                call |-> [funcDeclRef |-> h.funcDeclRef,
                          typeDenoter |-> h.typeDenoter,
                          intrinsic   |-> h.intrinsic,
                          arguments   |-> [i \in 1..Len(args) |-> i]]]>> :
        args \in UNION {[1..m -> Operands] : m \in 0..MaxCallArgs},
        h \in CallHeads}

\* int f();  and one of the trees
InitCall ==
    /\ structs = ProgramStructs
    /\ functions = <<[ident |-> <<"f">>,
                      returnType |-> [typeDenoter |-> [kind |-> "Base", dataType |-> "Int"]],
                      parameters |-> <<>>]>>
    /\ declStmnt = NoStmnt
    /\ literal = [dataType |-> "Int", value |-> <<"0">>]
    /\ unaryExpr = [op |-> "Negate"]
    /\ varDecl \in ExprVarDecls
    /\ varIdents = ChainOf(1, <<<<"a">>>>, <<<<>>>>, <<VarDeclNode>>)
    /\ exprs \in UnaryTrees \cup PostUnaryTrees \cup CallTrees
    /\ bufferedTypeDenoter =
          [x \in {VarDeclNode, VarIdentNode(1)} \cup {ExprNode(j) : j \in DOMAIN exprs}
              |-> NoDen]
    /\ NoTool
    /\ call = NoCall

NextCall ==
    \/ CallGetTypeDenoter(ExprNode(1))
    \/ CallGetTypeDenoter(ExprNode(Root))
    \/ ResetBufferedTypeDenoter(ExprNode(Root))

SpecCall == InitCall /\ [][NextCall]_vars

\* is den a denoter of bool
IsBoolDenoter(den) == den.kind = "Base" /\ den.dataType = "Bool"

\* with the operand's type derived, the derivation of expression j gives
\* bool for a logical operator and the operand's denoter for any other
LogicalOrOperand(j) ==
    LET operand == TypedASTGetTypeDenoter(bufferedTypeDenoter, ExprNode(exprs[j].expr))
        r       == DeriveTypeDenoter(bufferedTypeDenoter, ExprNode(j))
    IN  operand.ok =>
          /\ r.ok
          /\ IsLogicalOp(exprs[j].op) => IsBoolDenoter(r.den)
          /\ ~IsLogicalOp(exprs[j].op) => r.den = operand.den

\* with the operand's type derived, the derivation of expression j gives
\* the operand's denoter
AlwaysOperand(j) ==
    LET operand == TypedASTGetTypeDenoter(bufferedTypeDenoter, ExprNode(exprs[j].expr))
        r       == DeriveTypeDenoter(bufferedTypeDenoter, ExprNode(j))
    IN  operand.ok =>
          /\ r.ok
          /\ r.den = operand.den
          /\ CalledOn(j) =>
                call.ok /\ call.den = bufferedTypeDenoter[ExprNode(exprs[j].expr)]

\* C21 as stated: the derived type of a UnaryExpr and of a PostUnaryExpr is
\* bool when the operator is a logical operator and the operand's denoter
\* otherwise.
UnaryAndPostUnaryLogical ==
    /\ \A j \in ExprsOfType("UnaryExpr") : LogicalOrOperand(j)
    /\ \A j \in ExprsOfType("PostUnaryExpr") : LogicalOrOperand(j)

\* C21: the derived type of a UnaryExpr is bool when the operator is a
\* logical operator and the operand's denoter otherwise; the derived type
\* of a PostUnaryExpr is the operand's denoter whatever the operator is.
UnaryLogicalPostUnaryOperand ==
    /\ \A j \in ExprsOfType("UnaryExpr") :
          /\ LogicalOrOperand(j)
          /\ (CalledOn(j) /\ call.ok /\ IsLogicalOp(exprs[j].op))
                => IsBoolDenoter(call.den)
    /\ \A j \in ExprsOfType("PostUnaryExpr") : AlwaysOperand(j)

\* GetTypeDenoter() on  1.5 !  (a PostUnaryExpr with the logical operator)
\* returned the denoter of the float literal
PostUnaryOperandWitness ==
    /\ exprs[Root].type = "PostUnaryExpr"
    /\ IsLogicalOp(exprs[Root].op)
    /\ exprs[1] = [type |-> "LiteralExpr", dataType |-> "Float"]
    /\ CalledOn(Root)
    /\ call.ok
    /\ call.den.dataType = "Float"
    /\ call.den = bufferedTypeDenoter[ExprNode(1)]

\* C22: the derivation of a FunctionCallExpr gives the return type denoter
\* of the function declaration when funcDeclRef is set, whatever else is
\* set; else the call's own type denoter when that is set; else, when the
\* intrinsic is not Undefined, what the intrinsic typing gives for the
\* arguments, or an error pinned to the call when that typing fails; and
\* an error pinned to the call, with no denoter, when none of the three is
\* there.
FunctionCallPriority ==
    \A j \in ExprsOfType("FunctionCallExpr") :
        LET c == exprs[j].call
            r == DeriveTypeDenoter(bufferedTypeDenoter, ExprNode(j))
            failed == ~r.ok /\ r.den = NoDen /\ r.at = ExprNode(j)
        IN  /\ IF c.funcDeclRef # 0
               THEN /\ r.ok
                    /\ r.den = Instance(ReturnTypeId,
                                        functions[c.funcDeclRef].returnType.typeDenoter)
               ELSE IF c.typeDenoter # NoDen
               THEN r.ok /\ r.den = c.typeDenoter
               ELSE IF c.intrinsic # "Undefined"
               THEN LET typed == IntrinsicReturnType(bufferedTypeDenoter,
                                                     c.intrinsic, c.arguments)
                    IN  IF typed.ok THEN r.ok /\ r.den = typed.den ELSE failed
               ELSE failed
            /\ CalledOn(j) =>
                  /\ call.ok = r.ok
                  /\ call.den = r.den
                  /\ ~call.ok => call.at = ExprNode(j)

\* GetTypeDenoter() on a call that is bound to a function declaration and
\* also carries a type constructor and an intrinsic returned the return
\* type of the declaration
FunctionCallPriorityWitness ==
    /\ exprs[Root].type = "FunctionCallExpr"
    /\ exprs[Root].call.funcDeclRef # 0
    /\ exprs[Root].call.typeDenoter # NoDen
    /\ exprs[Root].call.intrinsic # "Undefined"
    /\ CalledOn(Root)
    /\ call.ok
    /\ call.den.id = ReturnTypeId
    /\ call.den.dataType = "Int"

====
